---- MODULE Spec2Model ----
(***************************************************************************)
(* A model of the E-mergo App Inspector extension                          *)
(* (src/qs-emergo-app-inspector.js): the cache of opened apps, the         *)
(* controller's state machine, the inspector modal's scope with its load   *)
(* chain and handlers, and the functions that shape host data into         *)
(* display items.                                                          *)
(*                                                                         *)
(* JavaScript values: a text is a tuple of one-character strings (so that  *)
(* toLowerCase, indexOf and concat are computed, not assumed), an object   *)
(* is a function from its own property names, null and undefined are the   *)
(* records Null and Undefined.                                             *)
(*                                                                         *)
(* Specifications: SpecOpenApp (openApp and its cache), SpecObjects        *)
(* (getUniqueAppObjectsFromSheets on the sheets of an app), SpecLoad (the  *)
(* modal's load chain, request by request), Spec (the controller, the      *)
(* modal and its user).                                                    *)
(***************************************************************************)
EXTENDS Integers, Sequences, FiniteSets, TLC

VARIABLES
    _apps,        \* openApp's cache: app id -> promise (an index of promises)
    promises,     \* every promise openApp made: its state
    lastRet,      \* the promise the last openApp call returned, and its state then
    openCalls,    \* history: app id -> number of qlik.openApp invocations
    returned,     \* history: app id -> the promises openApp returned for it
    calls,        \* history: app id -> number of openApp calls
    sheetsIn,     \* getUniqueAppObjectsFromSheets: the sheet info it is given
    uniqOut,      \* the chart and extension lists made of its result
    infoIn,       \* what the host answers to one of the info requests
    infoOut,      \* the list the info request resolved with
    fsm,          \* the controller's state machine: "IDLE" or "MODAL"
    modal,        \* the controller's modal: "undefined", "dialog" or "null"
    dialog,       \* the dialog of the dialog service: "none", "open", "closing"
    pc,           \* showAppInspectorForApp: "idle", or "await" at line 1110
    destroyed,    \* the controller's scope was destroyed
    canSwitchToEdit, \* line 1430: whether edit mode is allowed
    scope,        \* the $scope of the modal shown last
    pending,      \* the requests of the $q.all that have not resolved
    args,         \* the keys of the $q.all's result, in the order they were set
    loadState,    \* "none", "requests", "extensions", "done" or "failed"
    errorDialogs, \* the "Inspector error" dialogs shown in this session
    early,        \* the requests that resolved before one written earlier
    host,         \* the defaultBookmarkId of the app's AppPropsList layout
    prevSession   \* history: how far the load was when a dialog was last closed

oaVars == <<_apps, promises, lastRet>>
oaHist == <<openCalls, returned, calls>>
objVars == <<sheetsIn, uniqOut, infoIn, infoOut>>
ctlVars == <<fsm, modal, dialog, pc, destroyed, canSwitchToEdit>>
loadVars == <<pending, args, loadState, errorDialogs, early, host>>
modalVars == <<ctlVars, scope, loadVars, prevSession>>

vars == <<_apps, promises, lastRet, openCalls, returned, calls, sheetsIn, uniqOut,
          infoIn, infoOut,
          fsm, modal, dialog, pc, destroyed, canSwitchToEdit, scope, pending, args,
          loadState, errorDialogs, early, host, prevSession>>

(***************************************************************************)
(* JavaScript values                                                       *)
(*                                                                         *)
(* A value whose type varies (a detail's value, an attribute that may be   *)
(* null) is tagged with its type; a text is a tuple of characters.         *)
(***************************************************************************)
Null == [t |-> "null"]
Undefined == [t |-> "undefined"]
Str(s) == [t |-> "string", v |-> s]
Bool(b) == [t |-> "boolean", v |-> b]
Num(n) == [t |-> "number", v |-> n]
Arr(a) == [t |-> "array", v |-> a]
\* An object literal with the properties label and value (a detail entry).
Entry(l, val) == [t |-> "object", label |-> l, value |-> val]

Has(obj, k) == k \in DOMAIN obj
Put(obj, k, v) == [f \in DOMAIN obj \cup {k} |-> IF f = k THEN v ELSE obj[f]]
Omit(obj, ks) == [f \in DOMAIN obj \ ks |-> obj[f]]
EmptyObject == [f \in {} |-> Null]

\* JavaScript's ToBoolean.
Truthy(v) ==
    CASE v.t = "null" -> FALSE
      [] v.t = "undefined" -> FALSE
      [] v.t = "boolean" -> v.v
      [] v.t = "number" -> v.v # 0
      [] v.t = "string" -> v.v # <<>>
      [] OTHER -> TRUE

\* `v && v.length`: only strings and arrays have a length.
TruthyLength(v) ==
    /\ Truthy(v)
    /\ v.t \in {"string", "array"}
    /\ Len(v.v) > 0

(***************************************************************************)
(* Texts                                                                   *)
(***************************************************************************)
LowerOf ==
    [A |-> "a", B |-> "b", C |-> "c", D |-> "d", E |-> "e", F |-> "f",
     G |-> "g", H |-> "h", I |-> "i", J |-> "j", K |-> "k", L |-> "l",
     M |-> "m", N |-> "n", O |-> "o", P |-> "p", Q |-> "q", R |-> "r",
     S |-> "s", T |-> "t", U |-> "u", V |-> "v", W |-> "w", X |-> "x",
     Y |-> "y", Z |-> "z"]
UpperOf ==
    [a |-> "A", b |-> "B", c |-> "C", d |-> "D", e |-> "E", f |-> "F",
     g |-> "G", h |-> "H", i |-> "I", j |-> "J", k |-> "K", l |-> "L",
     m |-> "M", n |-> "N", o |-> "O", p |-> "P", q |-> "Q", r |-> "R",
     s |-> "S", t |-> "T", u |-> "U", v |-> "V", w |-> "W", x |-> "X",
     y |-> "Y", z |-> "Z"]

LowerChar(c) == IF c \in DOMAIN LowerOf THEN LowerOf[c] ELSE c
UpperChar(c) == IF c \in DOMAIN UpperOf THEN UpperOf[c] ELSE c

\* String.prototype.toLowerCase
toLowerCase(s) == [i \in 1..Len(s) |-> LowerChar(s[i])]

\* String.prototype.indexOf(sub) !== -1
Contains(s, sub) ==
    \E i \in 0..(Len(s) - Len(sub)) : SubSeq(s, i + 1, i + Len(sub)) = sub

\* Array.prototype.join(" ") of an array of strings
RECURSIVE Join(_)
Join(a) ==
    IF a = <<>> THEN <<>>
    ELSE IF Len(a) = 1 THEN a[1].v
    ELSE a[1].v \o <<" ">> \o Join(Tail(a))

\* The order of the characters the model's labels are made of.
CharRank(c) ==
    CASE c = " " -> 0
      [] c \in {"0", "1", "2", "3", "4", "5", "6", "7", "8", "9"} -> 1
      [] c \in {"a", "A"} -> 2
      [] c \in {"b", "B"} -> 3
      [] c \in {"c", "C"} -> 4
      [] c \in {"e", "E"} -> 5
      [] c \in {"m", "M"} -> 6
      [] c \in {"s", "S"} -> 7
      [] c \in {"t", "T"} -> 8
      [] c \in {"x", "X"} -> 9
      [] OTHER -> 10

\* a.localeCompare(b) < 0, on lower-cased labels
RECURSIVE TextLess(_, _)
TextLess(a, b) ==
    IF b = <<>> THEN FALSE
    ELSE IF a = <<>> THEN TRUE
    ELSE IF CharRank(a[1]) # CharRank(b[1]) THEN CharRank(a[1]) < CharRank(b[1])
    ELSE TextLess(Tail(a), Tail(b))

\* Number to text (count + " x ")
RECURSIVE NumText(_)
NumText(n) ==
    LET d == <<"0", "1", "2", "3", "4", "5", "6", "7", "8", "9">> IN
    IF n < 10 THEN <<d[n + 1]>> ELSE NumText(n \div 10) \o <<d[(n % 10) + 1]>>

(***************************************************************************)
(* prepareItem                                                             *)
(*                                                                         *)
(* An item is an object; its details, before prepareItem, are the own      *)
(* properties of item.details in their order: a sequence of                *)
(* [name, entry]; afterwards an array of rows.                             *)
(***************************************************************************)
\* JSON.stringify(x, null, "\t")
JsonStringify(x) == [json |-> x]

\* item.details[i].hasOwnProperty("value") ? item.details[i].value : item.details[i]
DetailValue(entry) ==
    IF entry.t = "object" /\ Has(entry, "value") THEN entry.value ELSE entry

\* i[0].toUpperCase() + i.substr(1)
Capitalize(name) == <<UpperChar(name[1])>> \o Tail(name)

\* The label of a row, mutated: a detail without a label gets none.
DetailLabelOwn(name, entry) ==
    IF entry.t = "object" /\ Has(entry, "label") THEN entry.label ELSE <<>>

\* item.details[i].label || Capitalize(i)
DetailLabel(name, entry) ==
    IF entry.t = "object" /\ Has(entry, "label") /\ entry.label # <<>>
    THEN entry.label
    ELSE Capitalize(name)

\* !! item.details[i].isCode
DetailIsCode(entry) ==
    entry.t = "object" /\ Has(entry, "isCode") /\ entry.isCode

\* Lines 918-933: the rows of the details that are listed.
RECURSIVE DetailRows(_)
DetailRows(details) ==
    IF details = <<>> THEN <<>>
    ELSE LET d == details[1]
             value == DetailValue(d.entry)
             listed == /\ d.entry.t \notin {"null", "undefined"}
                       /\ \/ value = Bool(FALSE)
                          \/ TruthyLength(value)
         IN (IF listed
             THEN <<[name |-> d.name,
                     label |-> DetailLabel(d.name, d.entry),
                     value |-> IF value.t = "array" THEN value.v ELSE <<value>>,
                     isCode |-> DetailIsCode(d.entry)]>>
             ELSE <<>>) \o DetailRows(Tail(details))

\* item.details.tags: the value of the tags detail, when there is one.
TagsOf(details) ==
    LET hits == {i \in 1..Len(details) :
                    /\ details[i].name = <<"t", "a", "g", "s">>
                    /\ Truthy(details[i].entry)}
    IN IF hits = {} THEN <<>> ELSE <<details[CHOOSE i \in hits : TRUE].entry.value>>

\* Lines 909-915: searchTerms, with the tags added.
PreparedSearchTerms(item) ==
    LET own == IF Has(item, "searchTerms") THEN item.searchTerms ELSE <<>>
        tags == IF Has(item, "details") THEN TagsOf(item.details) ELSE <<>>
    IN IF tags = <<>> THEN own ELSE own \o Join(tags[1].v) \o <<" ">>

\* One code entry of prepareItem, mutated: an entry already there is
\* written over.
WithCodeOverwrite(item, code, attr, lbl) ==
    IF /\ Has(item, attr)
       /\ attr = "children" => Truthy(item.children)
    THEN Put(code, attr, [label |-> lbl, value |-> JsonStringify(item[attr])])
    ELSE code

\* Lines 943-964: item.code[attr] is set from item[attr] unless it is there.
\* layout and properties are taken whenever owned, children only when
\* truthy.
WithCode(item, code, attr, lbl) ==
    IF /\ Has(item, attr)
       /\ attr = "children" => Truthy(item.children)
       /\ ~Has(code, attr)
    THEN Put(code, attr, [label |-> lbl, value |-> JsonStringify(item[attr])])
    ELSE code

\* `! item.items`
HasItems(item) == Has(item, "items") /\ Truthy(item.items)

\* Lines 938-965: the code collection of an item without sub-items.
PreparedCode(item) ==
    LET c0 == IF Has(item, "code") THEN item.code ELSE EmptyObject
        c1 == WithCode(item, c0, "layout", "Layout")
        c2 == WithCode(item, c1, "properties", "Properties")
    IN WithCode(item, c2, "children", "Children")

prepareItem(item) ==
    LET i1 == Put(item, "searchTerms", PreparedSearchTerms(item))
        i2 == Put(i1, "details",
                  IF Has(item, "details") THEN DetailRows(item.details) ELSE <<>>)
    IN IF HasItems(item) THEN i2 ELSE Put(i2, "code", PreparedCode(item))

(***************************************************************************)
(* getUniqueAppObjectsFromSheets                                           *)
(*                                                                         *)
(* sheetInfo is an array of sheets [id, label, visualizations]; a          *)
(* visualization is [cell, errors, properties, children, masterobject]     *)
(* with masterobject Undefined when the object is no master object.        *)
(***************************************************************************)
\* The indexes of the first occurrence of every key: _.uniq(list, false, f)
UniqIndexes(keys) ==
    SelectSeq([i \in 1..Len(keys) |-> i],
              LAMBDA i : \A j \in 1..(i - 1) : keys[j] # keys[i])

\* _.flatten(list, 1)
RECURSIVE Flatten(_)
Flatten(ss) == IF ss = <<>> THEN <<>> ELSE ss[1] \o Flatten(Tail(ss))

\* Array.prototype.sort with the comparator of line 363-365 (stable).
RECURSIVE InsertByLabel(_, _)
InsertByLabel(sorted, item) ==
    IF sorted = <<>> THEN <<item>>
    ELSE IF TextLess(toLowerCase(item.label), toLowerCase(sorted[1].label))
    THEN <<item>> \o sorted
    ELSE <<sorted[1]>> \o InsertByLabel(Tail(sorted), item)

RECURSIVE SortByLabel(_)
SortByLabel(items) ==
    IF items = <<>> THEN <<>>
    ELSE InsertByLabel(SortByLabel(SubSeq(items, 1, Len(items) - 1)), items[Len(items)])

\* getSingleVizUrl / getSingleSheetUrl: the parts the url is made of.
getSingleVizUrl(appId, objId) ==
    [single |-> "obj", appid |-> appId, id |-> objId, opt |-> "nointeraction,noselections"]
getSingleSheetUrl(appId, sheetId) ==
    [single |-> "sheet", appid |-> appId, id |-> sheetId, opt |-> "nointeraction,noselections"]

\* appInfo.getDataDefinition / getChildrenDataDefinition (util/app-info): the
\* fields, dimensions and measures an object or its children use, as
\* details; the model's objects carry them.
getDataDefinition(properties) == properties.qData
getChildrenDataDefinition(children) == Flatten([i \in 1..Len(children) |-> children[i].qData])

\* Lines 145-163: the sheet objects of all sheets.
SheetObjects(sheetInfo) ==
    Flatten([s \in 1..Len(sheetInfo) |->
        LET sheet == sheetInfo[s]
            viz == IF Has(sheet, "visualizations") THEN sheet.visualizations ELSE <<>>
        IN [o \in 1..Len(viz) |->
               [id |-> viz[o].cell.name,
                details |-> [sheet |-> sheet.id],
                errors |-> viz[o].errors,
                meta |-> IF Has(viz[o].properties, "extensionMeta")
                         THEN viz[o].properties.extensionMeta
                         ELSE [name |-> viz[o].properties.qInfo.qType,
                               template |-> viz[o].properties.qInfo.qType,
                               isThirdParty |-> FALSE],
                properties |-> viz[o].properties,
                children |-> viz[o].children,
                masterobject |-> viz[o].masterobject]]])

\* sheetInfo.find( b => b.id === id )
FindSheet(sheetInfo, id) ==
    sheetInfo[CHOOSE i \in 1..Len(sheetInfo) :
                /\ sheetInfo[i].id = id
                /\ \A j \in 1..(i - 1) : sheetInfo[j].id # id]

\* x.title && x.title.qStringExpression ? x.title.qStringExpression.qExpr : x.title
ExprOrText(v) ==
    IF v.t = "object" /\ Has(v, "qStringExpression") THEN Str(v.qStringExpression.qExpr) ELSE v

\* a.masterobject && a.masterobject.qMetaDef.title || null
MasterTitle(mo) == IF Truthy(mo) /\ mo.qMetaDef.title # <<>> THEN Str(mo.qMetaDef.title) ELSE Null

\* a.masterobject && a.masterobject.qInfo.qId
MasterId(mo) == IF Truthy(mo) THEN Str(mo.qInfo.qId) ELSE mo

\* Lines 228-239: the labels of the sheets, each once, with its count.
SheetsValue(sheets) ==
    LET labels == [i \in 1..Len(sheets) |-> sheets[i].label]
        firsts == UniqIndexes(labels)
    IN [k \in 1..Len(firsts) |->
           LET lbl == labels[firsts[k]]
               count == Cardinality({i \in 1..Len(labels) : labels[i] = lbl})
           IN Str((IF count > 1 THEN NumText(count) \o <<" ", "x", " ">> ELSE <<>>) \o lbl)]

\* data[i].value.join(" ").concat(" ") over the data details
RECURSIVE DataSearchTerms(_)
DataSearchTerms(data) ==
    IF data = <<>> THEN <<>>
    ELSE Join(data[1].entry.value.v) \o <<" ">> \o DataSearchTerms(Tail(data))

\* Lines 262-327: the sub-item of one object of a type with several.
SubItemOf(a, sheetInfo, appId) ==
    LET hasChildren == Len(a.children) > 0
        data == IF hasChildren THEN getChildrenDataDefinition(a.children)
                ELSE IF Truthy(a.masterobject) THEN getDataDefinition(a.masterobject)
                ELSE getDataDefinition(a.properties)
        code0 == [properties |-> [label |-> "Properties", value |-> JsonStringify(a.properties)]]
        sub == [id |-> a.id,
                isMasterObject |-> MasterId(a.masterobject),
                details |-> <<
                    [name |-> <<"m","a","s","t","e","r","o","b","j","e","c","t">>,
                     entry |-> Entry(<<"M","a","s","t","e","r">>, MasterTitle(a.masterobject))],
                    [name |-> <<"t","i","t","l","e">>,
                     entry |-> Entry(<<"T","i","t","l","e">>, ExprOrText(a.properties.title))],
                    [name |-> <<"s","u","b","t","i","t","l","e">>,
                     entry |-> Entry(<<"S","u","b","t","i","t","l","e">>, ExprOrText(a.properties.subtitle))],
                    [name |-> <<"s","h","e","e","t">>,
                     entry |-> Entry(<<"S","h","e","e","t">>, Str(FindSheet(sheetInfo, a.details.sheet).label))]
                  >> \o data,
                errors |-> Arr(a.errors),
                preview |-> [url |-> getSingleVizUrl(appId, a.id)],
                code |-> IF hasChildren
                         THEN Put(code0, "children",
                                  [label |-> "Children", value |-> JsonStringify(Arr(a.children))])
                         ELSE code0]
    IN [item |-> prepareItem(sub), terms |-> DataSearchTerms(data)]

\* Line 249, mutated: the counter of a type with a single object is 1.
ItemCountFromOne(objects) == Len(objects)

\* Line 249: 1 is already assumed, so the counter is hidden by setting 0.
ItemCount(objects) == IF Len(objects) > 1 THEN Len(objects) ELSE 0

\* Lines 168-362: the item of one type, from its objects.
TypeItem(objects, sheetInfo, extensionList, appId) ==
    LET template == objects[1]
        isMultipleItems == Len(objects) > 1
        isSingleItem == ~isMultipleItems
        hasError == \E i \in 1..Len(objects) : Len(objects[i].errors) > 0
        sheets == [i \in 1..Len(objects) |-> FindSheet(sheetInfo, objects[i].details.sheet)]
        known == Has(extensionList, template.meta.template)
        ext == IF known THEN extensionList[template.meta.template] ELSE EmptyObject
        OrNull(k) == IF Has(ext, k) /\ ext[k] # <<>> THEN Str(ext[k]) ELSE Null
        global == <<
            [name |-> <<"m","a","s","t","e","r","o","b","j","e","c","t">>,
             entry |-> Entry(<<"M","a","s","t","e","r">>,
                             IF isSingleItem THEN MasterTitle(objects[1].masterobject) ELSE Null)],
            [name |-> <<"v","e","r","s","i","o","n">>,
             entry |-> Entry(<<"V","e","r","s","i","o","n">>, OrNull("version"))],
            [name |-> <<"t","i","t","l","e">>,
             entry |-> Entry(<<"T","i","t","l","e">>, ExprOrText(objects[1].properties.title))],
            [name |-> <<"s","u","b","t","i","t","l","e">>,
             entry |-> Entry(<<"S","u","b","t","i","t","l","e">>, ExprOrText(objects[1].properties.subtitle))],
            [name |-> <<"d","e","s","c","r","i","p","t","i","o","n">>,
             entry |-> Entry(<<"D","e","s","c","r","i","p","t","i","o","n">>, OrNull("description"))],
            [name |-> <<"a","u","t","h","o","r">>,
             entry |-> Entry(<<"A","u","t","h","o","r">>, OrNull("author"))],
            [name |-> <<"b","u","n","d","l","e">>,
             entry |-> Entry(<<"B","u","n","d","l","e">>, OrNull("bundle"))],
            [name |-> <<"s","h","e","e","t","s">>,
             entry |-> Entry(<<"S","h","e","e","t","s">>, Arr(SheetsValue(sheets)))] >>
        start == [id |-> template.properties.qInfo.qType,
                  label |-> IF Has(ext, "name") /\ ext.name # <<>> THEN ext.name ELSE template.meta.name,
                  icon |-> IF hasError THEN "debug" ELSE "",
                  isThirdParty |-> template.meta.isThirdParty,
                  isMasterObject |-> IF isSingleItem THEN MasterId(objects[1].masterobject) ELSE Bool(FALSE),
                  count |-> ItemCount(objects),
                  details |-> global,
                  errors |-> IF isSingleItem THEN Arr(objects[1].errors) ELSE Bool(FALSE),
                  searchTerms |-> <<>>]
    IN IF isMultipleItems
       THEN LET subs == [i \in 1..Len(objects) |-> SubItemOf(objects[i], sheetInfo, appId)]
            IN [start EXCEPT
                   !.details = SelectSeq(global, LAMBDA d :
                        d.name \notin {<<"t","i","t","l","e">>, <<"s","u","b","t","i","t","l","e">>}),
                   !.searchTerms = Flatten([i \in 1..Len(subs) |-> subs[i].terms])]
               @@ [items |-> Arr([i \in 1..Len(subs) |-> subs[i].item])]
       ELSE LET hasChildren == Len(objects[1].children) > 0
                data == IF hasChildren THEN getChildrenDataDefinition(objects[1].children)
                        ELSE getDataDefinition(objects[1].properties)
                single == [start EXCEPT !.details = global \o data,
                                        !.searchTerms = DataSearchTerms(data)]
                          @@ [properties |-> objects[1].properties,
                              preview |-> [url |-> getSingleVizUrl(appId, objects[1].properties.qInfo.qId)]]
            IN IF hasChildren THEN single @@ [children |-> Arr(objects[1].children)] ELSE single

\* Lines 166-174: one item per type, of the objects of that type.
TypeItems(sheetInfo, extensionList, appId) ==
    LET sheetObjects == SheetObjects(sheetInfo)
        types == [i \in 1..Len(sheetObjects) |-> sheetObjects[i].properties.qInfo.qType]
        firsts == UniqIndexes(types)
    IN [k \in 1..Len(firsts) |->
           LET template == sheetObjects[firsts[k]]
               objects == SelectSeq(sheetObjects, LAMBDA a :
                              template.properties.qInfo.qType = a.properties.qInfo.qType)
           IN TypeItem(objects, sheetInfo, extensionList, appId)]

getUniqueAppObjectsFromSheets(sheetInfo, extensionList, appId) ==
    LET sorted == SortByLabel(TypeItems(sheetInfo, extensionList, appId))
    IN [i \in 1..Len(sorted) |-> prepareItem(sorted[i])]

(***************************************************************************)
(* openApp (the cache of opened apps)                                      *)
(***************************************************************************)
MaxCalls == 4

\* currApp.id and the ids of two other apps; "" is the empty string.
CurrAppId == "curr"
AppIds == {"", CurrAppId, "app1", "app2"}
\* What openApp is called with: a string id, or an app object (which has
\* an id property).
StringArgs == [kind : {"string"}, id : AppIds]
AppObjectArgs == [kind : {"app"}, id : {"app1"}]

IsString(appId) == appId.kind = "string"
\* `! appId`: of the inputs only the empty string is falsy.
Falsy(appId) == IsString(appId) /\ appId.id = ""
\* `appId.id`: a string has no id property.
HasId(appId) == ~IsString(appId)

\* _apps.hasOwnProperty(appId), mutated: a rejected promise is not kept.
IsCachedRetryFailed(cache, ps, id) ==
    /\ id \in DOMAIN cache
    /\ ps[cache[id]] # "rejected"

\* _apps.hasOwnProperty(appId)
IsCached(cache, ps, id) == id \in DOMAIN cache

\* Lines 75-78: the current app is cached as an already resolved promise.
WithCurrApp(cache, ps) ==
    IF IsCached(cache, ps, CurrAppId)
    THEN [c |-> cache, p |-> ps]
    ELSE [c |-> Put(cache, CurrAppId, Len(ps) + 1), p |-> Append(ps, "resolved")]

\* openApp(appId): the cache, the promises and the returned promise after
\* the call, and whether qlik.openApp was invoked.
openApp(appId) ==
    IF Falsy(appId)
    THEN [c |-> _apps, p |-> Append(promises, "rejected"),
          ret |-> Len(promises) + 1, opened |-> FALSE]
    ELSE IF HasId(appId)
    THEN [c |-> _apps, p |-> Append(promises, "resolved"),
          ret |-> Len(promises) + 1, opened |-> FALSE]
    ELSE LET w == WithCurrApp(_apps, promises) IN
         IF IsCached(w.c, w.p, appId.id)
         THEN [c |-> w.c, p |-> w.p, ret |-> w.c[appId.id], opened |-> FALSE]
         ELSE [c |-> Put(w.c, appId.id, Len(w.p) + 1),
               p |-> Append(w.p, "waitForOpen"),
               ret |-> Len(w.p) + 1, opened |-> TRUE]

TotalCalls == calls[""] + calls[CurrAppId] + calls["app1"] + calls["app2"] + calls["object"]

OpenAppCall(appId) ==
    /\ TotalCalls < MaxCalls
    /\ LET r == openApp(appId)
           h == IF IsString(appId) THEN appId.id ELSE "object" IN
       /\ _apps' = r.c
       /\ promises' = r.p
       /\ lastRet' = [p |-> r.ret, st |-> r.p[r.ret]]
       /\ calls' = [calls EXCEPT ![h] = @ + 1]
       /\ returned' = [returned EXCEPT ![h] = @ \cup {r.ret}]
       /\ openCalls' = [openCalls EXCEPT ![h] = @ + (IF r.opened THEN 1 ELSE 0)]
    /\ UNCHANGED <<objVars, modalVars>>

\* app.model.waitForOpen.promise resolves: the 120 ms timer is started.
WaitForOpenResolved(p) ==
    /\ promises[p] = "waitForOpen"
    /\ promises' = [promises EXCEPT ![p] = "timer"]
    /\ UNCHANGED <<_apps, lastRet, oaHist, objVars, modalVars>>

\* app.model.waitForOpen.promise rejects: so does the cached promise.
WaitForOpenRejected(p) ==
    /\ promises[p] = "waitForOpen"
    /\ promises' = [promises EXCEPT ![p] = "rejected"]
    /\ UNCHANGED <<_apps, lastRet, oaHist, objVars, modalVars>>

\* The timer fires: dfd.resolve(app).
TimerFired(p) ==
    /\ promises[p] = "timer"
    /\ promises' = [promises EXCEPT ![p] = "resolved"]
    /\ UNCHANGED <<_apps, lastRet, oaHist, objVars, modalVars>>

\* No dialog has been shown yet: there is no modal scope.
NoScope == [gone |-> TRUE]

\* The controller before the inspector is opened (lines 1083-1101).
ModalIdle ==
    /\ fsm = "IDLE"
    /\ modal = "undefined"
    /\ dialog = "none"
    /\ pc = "idle"
    /\ destroyed = FALSE
    /\ scope = NoScope
    /\ pending = {}
    /\ args = <<>>
    /\ loadState = "none"
    /\ errorDialogs = 0
    /\ early = 0
    /\ prevSession = "none"

\* No info request is looked at.
InfoIdle == infoIn = [kind |-> "none"] /\ infoOut = [done |-> FALSE]

\* openApp's state when the extension is loaded.
InitApps ==
    /\ _apps = [a \in {} |-> 0]
    /\ promises = <<>>
    /\ lastRet = [p |-> 0, st |-> "none"]
    /\ openCalls = [a \in AppIds \cup {"object"} |-> 0]
    /\ returned = [a \in AppIds \cup {"object"} |-> {}]
    /\ calls = [a \in AppIds \cup {"object"} |-> 0]

InitOpenApp ==
    /\ InitApps
    /\ sheetsIn = <<>>
    /\ uniqOut = EmptyObject
    /\ InfoIdle
    /\ ModalIdle
    /\ canSwitchToEdit = TRUE
    /\ host = Undefined

NextOpenApp ==
    \/ \E a \in StringArgs \cup AppObjectArgs : OpenAppCall(a)
    \/ \E p \in 1..Len(promises) : WaitForOpenResolved(p)
    \/ \E p \in 1..Len(promises) : WaitForOpenRejected(p)
    \/ \E p \in 1..Len(promises) : TimerFired(p)

SpecOpenApp == InitOpenApp /\ [][NextOpenApp]_vars

\* C1 as stated: over any sequence of openApp calls with string ids,
\* qlik.openApp is invoked at most once per id and never for the current
\* app's id, and every call with the same id returns the same promise.
C1_Original ==
    \A a \in AppIds :
        /\ openCalls[a] <= 1
        /\ openCalls[CurrAppId] = 0
        /\ Cardinality(returned[a]) <= 1

\* C1 amended: the same for every non-empty string id; the empty id is
\* refused with a new rejected promise on each call and never opened.
C1_OpenOncePerApp ==
    /\ \A a \in AppIds :
        /\ openCalls[a] <= 1
        /\ a # "" => Cardinality(returned[a]) <= 1
        /\ a # "" /\ calls[a] > 0 => returned[a] = {_apps[a]}
    /\ openCalls[CurrAppId] = 0
    /\ openCalls[""] = 0

\* An app was asked for while its open was pending and again after the open
\* had failed (the last call returned the rejected promise), and the
\* current app was asked for too.
C1_Witness ==
    /\ calls["app1"] >= 3
    /\ openCalls["app1"] = 1
    /\ lastRet = [p |-> _apps["app1"], st |-> "rejected"]
    /\ calls[CurrAppId] >= 1

(***************************************************************************)
(* The chart and extension lists (getUniqueAppObjectsFromSheets applied to *)
(* the sheets of an app)                                                   *)
(***************************************************************************)
MaxObjects == 3

T_bar == <<"b", "a", "r">>
T_tab == <<"t", "a", "b">>
T_ext == <<"e", "x", "t">>
ObjectTypes == {T_bar, T_tab, T_ext}
\* The types that are extensions: their objects carry extensionMeta.
ThirdPartyTypes == {T_ext}

\* appInfo.extensions(): the installed extensions, by template.
ExtensionList ==
    (T_ext :> [name |-> <<"E", "x", "t", "r", "a">>, version |-> <<"1">>,
               description |-> <<>>, author |-> <<"m", "e">>, bundle |-> <<>>])

\* What is chosen about one object: its type, its sheet, whether it has errors.
ObjectChoices == [type : ObjectTypes, sheet : 1..2, err : BOOLEAN]

RECURSIVE SeqsUpTo(_, _)
SeqsUpTo(S, n) ==
    IF n = 0 THEN {<<>>}
    ELSE LET shorter == SeqsUpTo(S, n - 1)
         IN shorter \cup {Append(q, x) : q \in {r \in shorter : Len(r) = n - 1}, x \in S}

\* The visualization of a sheet as appInfo.sheets lists it.
Visualization(k, c) ==
    LET base == [qInfo |-> [qId |-> <<"o", NumText(k)[1]>>, qType |-> c.type],
                 title |-> IF c.err THEN Undefined ELSE Str(<<"T", NumText(k)[1]>>),
                 subtitle |-> Undefined,
                 qData |-> IF c.type = T_bar
                           THEN <<[name |-> <<"d","i","m","s">>,
                                   entry |-> Entry(<<"D","i","m","s">>, Arr(<<Str(<<"c", NumText(k)[1]>>)>>))]>>
                           ELSE <<>>]
    IN [cell |-> [name |-> <<"o", NumText(k)[1]>>],
        errors |-> IF c.err THEN <<[message |-> <<"b","a","d">>]>> ELSE <<>>,
        properties |-> IF c.type \in ThirdPartyTypes
                       THEN base @@ [extensionMeta |->
                                [name |-> <<"O","l","d">>, template |-> c.type, isThirdParty |-> TRUE]]
                       ELSE base,
        children |-> IF c.type = T_tab
                     THEN <<[id |-> <<"k", NumText(k)[1]>>,
                             qData |-> <<[name |-> <<"f","l","d","s">>,
                                          entry |-> Entry(<<"F","l","d","s">>, Arr(<<Str(<<"f", NumText(k)[1]>>)>>))]>>]>>
                     ELSE <<>>,
        masterobject |-> Undefined]

\* getSheetInfo's result for the chosen objects: the summary first, then
\* two sheets, whose labels are the same or differ.
SheetInfoOf(choices, sameLabel) ==
    LET on(s) == SelectSeq([k \in 1..Len(choices) |-> [k |-> k, c |-> choices[k]]],
                           LAMBDA e : e.c.sheet = s)
        viz(s) == [i \in 1..Len(on(s)) |-> Visualization(on(s)[i].k, on(s)[i].c)]
    IN << [id |-> <<"s", "0">>, label |-> <<"S", "u", "m">>],
          [id |-> <<"s", "1">>, label |-> <<"M", "a">>, visualizations |-> viz(1),
           preview |-> [url |-> getSingleSheetUrl(CurrAppId, <<"s", "1">>)]],
          [id |-> <<"s", "2">>, label |-> IF sameLabel THEN <<"M", "a">> ELSE <<"X", "t">>,
           visualizations |-> viz(2),
           preview |-> [url |-> getSingleSheetUrl(CurrAppId, <<"s", "2">>)]] >>

SheetInputs ==
    {SheetInfoOf(c, same) : c \in SeqsUpTo(ObjectChoices, MaxObjects), same \in BOOLEAN}

\* Line 1304, mutated: the chart list is not filtered.
ChartItemsUnfiltered(uniqObjects) == uniqObjects

\* Line 1304: the items that are not third party.
ChartItems(uniqObjects) == SelectSeq(uniqObjects, LAMBDA a : ~a.isThirdParty)

\* Line 1305: the items that are third party.
ExtensionItems(uniqObjects) == SelectSeq(uniqObjects, LAMBDA a : a.isThirdParty)

\* Lines 1303-1305 on the given sheets.
InspectObjects ==
    /\ uniqOut = EmptyObject
    /\ LET uniqObjects == getUniqueAppObjectsFromSheets(sheetsIn, ExtensionList, CurrAppId)
       IN uniqOut' = [chart |-> ChartItems(uniqObjects),
                      extension |-> ExtensionItems(uniqObjects)]
    /\ UNCHANGED <<sheetsIn, infoIn, infoOut, oaVars, oaHist, modalVars>>

InitObjects ==
    /\ InitApps
    /\ sheetsIn \in SheetInputs
    /\ uniqOut = EmptyObject
    /\ InfoIdle
    /\ ModalIdle
    /\ canSwitchToEdit = TRUE
    /\ host = Undefined

NextObjects == InspectObjects

SpecObjects == InitObjects /\ [][NextObjects]_vars

\* The visualization objects of the given sheets: [id, type, sheet label].
InputObjects ==
    Flatten([s \in 1..Len(sheetsIn) |->
        IF Has(sheetsIn[s], "visualizations")
        THEN [o \in 1..Len(sheetsIn[s].visualizations) |->
                 [id |-> sheetsIn[s].visualizations[o].cell.name,
                  type |-> sheetsIn[s].visualizations[o].properties.qInfo.qType,
                  sheetLabel |-> sheetsIn[s].label]]
        ELSE <<>>])
ObjectsOfType(ty) == SelectSeq(InputObjects, LAMBDA o : o.type = ty)
UsedTypes == {InputObjects[i].type : i \in 1..Len(InputObjects)}
ItemsOfType(list, ty) == {i \in 1..Len(list) : list[i].id = ty}
\* The values of an item's sheets detail.
SheetsDetail(item) ==
    LET rows == SelectSeq(item.details, LAMBDA r : r.name = <<"s","h","e","e","t","s">>)
    IN IF rows = <<>> THEN {} ELSE {rows[1].value[i].v : i \in 1..Len(rows[1].value)}
NamesSheet(item, lbl) ==
    \E v \in SheetsDetail(item) :
        \/ v = lbl
        \/ \E n \in 2..(MaxObjects + 1) : v = NumText(n) \o <<" ", "x", " ">> \o lbl

\* C7: the chart and extension lists together hold exactly one item per
\* type used on any sheet, in the extension list iff the type is third
\* party, and the item's sheets detail names every sheet an object of the
\* type is on.
C7_OneItemPerType ==
    uniqOut # EmptyObject =>
        /\ \A ty \in UsedTypes :
            /\ Cardinality(ItemsOfType(uniqOut.chart, ty))
                 + Cardinality(ItemsOfType(uniqOut.extension, ty)) = 1
            /\ (ItemsOfType(uniqOut.extension, ty) # {}) <=> (ty \in ThirdPartyTypes)
            /\ \A list \in {uniqOut.chart, uniqOut.extension} :
                 \A i \in ItemsOfType(list, ty) :
                   \A k \in 1..Len(ObjectsOfType(ty)) :
                     NamesSheet(list[i], ObjectsOfType(ty)[k].sheetLabel)
        /\ \A list \in {uniqOut.chart, uniqOut.extension} :
             \A i \in 1..Len(list) : list[i].id \in UsedTypes

\* The lists were made of sheets with a native type on both sheets and an
\* extension.
C7_Witness ==
    /\ uniqOut # EmptyObject
    /\ Len(uniqOut.chart) >= 1
    /\ Len(uniqOut.extension) = 1
    /\ \E i \in 1..Len(uniqOut.chart) : Cardinality(SheetsDetail(uniqOut.chart[i])) = 2

AllOut == IF uniqOut = EmptyObject THEN <<>> ELSE uniqOut.chart \o uniqOut.extension
SubItems(item) == IF Has(item, "items") THEN item.items.v ELSE <<>>
RECURSIVE SumCounts(_)
SumCounts(items) ==
    IF items = <<>> THEN 0
    ELSE (IF items[1].count > 1 THEN items[1].count ELSE 1) + SumCounts(Tail(items))

\* C8: the item of a type with n > 1 objects has count n and n sub-items,
\* one per object with the object's id; the item of a type with one object
\* has count 0 and no sub-items; the counts (at least 1 each) add up to the
\* number of objects.
C8_GroupedCounts ==
    uniqOut # EmptyObject =>
        /\ \A i \in 1..Len(AllOut) :
            LET item == AllOut[i]
                objs == ObjectsOfType(item.id)
            IN IF Len(objs) > 1
               THEN /\ item.count = Len(objs)
                    /\ Len(SubItems(item)) = Len(objs)
                    /\ \A k \in 1..Len(objs) : SubItems(item)[k].id = objs[k].id
               ELSE /\ item.count = 0
                    /\ ~Has(item, "items")
        /\ SumCounts(AllOut) = Len(InputObjects)

\* A type with two objects and a type with one were grouped.
C8_Witness ==
    /\ uniqOut # EmptyObject
    /\ \E i \in 1..Len(AllOut) : AllOut[i].count = 2 /\ Len(SubItems(AllOut[i])) = 2
    /\ \E i \in 1..Len(AllOut) : AllOut[i].count = 0

(***************************************************************************)
(* The inspected app: what the host returns for each request               *)
(***************************************************************************)
\* The keys of the $q.all of lines 1273-1284, in the order they are written.
Categories ==
    <<"app", "script", "field", "sheet", "dimension", "measure",
      "masterObject", "alternate-state", "variable", "bookmark">>
CategorySet == {Categories[i] : i \in 1..Len(Categories)}

\* The assets of the modal (lines 1018-1057), in their order.
assets ==
    <<"app", "errors", "script", "field", "sheet", "chart", "extension",
      "dimension", "measure", "masterObject", "alternate-state", "variable",
      "bookmark">>
AssetIds == {assets[i] : i \in 1..Len(assets)}

\* The entry of the detail called name, or Undefined: item.details[name]
DetailOf(item, name) ==
    IF ~Has(item, "details") THEN Undefined
    ELSE LET hits == {i \in 1..Len(item.details) : item.details[i].name = name}
         IN IF hits = {} THEN Undefined ELSE item.details[CHOOSE i \in hits : TRUE].entry

\* `a.searchTerms = a.details.<name>.value.concat(" ")` when the detail is there
\* (getDimensionInfo, getMeasureInfo, getVariableInfo, getBookmarkInfo).
WithSearchTerms(a, name) ==
    IF Truthy(DetailOf(a, name))
    THEN Put(a, "searchTerms", DetailOf(a, name).value.v \o <<" ">>)
    ELSE a

\* The default bookmark of the app's AppPropsList layout: none, a bookmark
\* of the app, or the id of a bookmark that is gone.
DefaultBookmarkIds == {Undefined, Str(<<"b", "m", "1">>), Str(<<"b", "m", "9">>)}

\* A promise of $q: the value it settles with is in no property of the
\* promise itself.
Promise(value) == [t |-> "promise", settled |-> value]

\* `obj.data` at line 824.
DataOf(obj) == IF obj.t = "promise" THEN Undefined ELSE obj.data

\* _.isEmpty of a value that is undefined or an object
IsEmpty(x) == x = Undefined \/ DOMAIN x = {}

\* Lines 729-731: what is put in args.qrsApp. The installation is a
\* desktop or not; the QRS request is rejected, or resolves without or
\* with the app's data.
QrsApp(env) ==
    Promise(IF env.isDesktop \/ env.qrs = "rejected" \/ env.qrs = "empty"
            THEN [t |-> "object", data |-> EmptyObject]
            ELSE [t |-> "object", data |-> [fileSize |-> 3 * 1024 * 1024]])

\* (fileSize / (1024 * 1024)).toFixed(2) of a whole number of hundredths
toFixed2(fileSize) ==
    LET hundredths == (fileSize * 100) \div (1024 * 1024)
    IN NumText(hundredths \div 100) \o <<".">>
       \o NumText((hundredths % 100) \div 10) \o NumText(hundredths % 10)

\* Line 793: the owner is a string, an object or missing.
OwnerValue(owner) ==
    IF owner.t = "string" THEN owner
    ELSE IF owner.t = "object"
         THEN Str(owner.userDirectory \o <<"/">> \o owner.userId)
         ELSE Null

\* Lines 735-821: the four items of the list.
AppItems(env) ==
    << [id |-> <<"a", "p", "p", ".", "m", "o", "d", "e", "l", ".", "l", "a", "y", "o", "u", "t">>, label |-> <<"M", "a", "i", "n", " ", "l", "a", "y", "o", "u", "t">>,
        details |-> << [name |-> <<"t", "i", "t", "l", "e">>, entry |-> Entry(<<"T", "i", "t", "l", "e">>, Str(<<"D", "e", "m", "o">>))],
                       [name |-> <<"d", "e", "s", "c", "r", "i", "p", "t", "i", "o", "n">>, entry |-> Entry(<<"D", "e", "s", "c", "r", "i", "p", "t", "i", "o", "n">>, Str(<<>>))],
                       [name |-> <<"f", "i", "l", "e", "n", "a", "m", "e">>, entry |-> Entry(<<"F", "i", "l", "e", " ", "n", "a", "m", "e">>, Str(<<"d", "e", "m", "o", ".", "q", "v", "f">>))],
                       [name |-> <<"s", "t", "r", "e", "a", "m">>, entry |-> Entry(<<"S", "t", "r", "e", "a", "m">>, Str(<<"N", "o">>))],
                       [name |-> <<"c", "r", "e", "a", "t", "e", "d", "D", "a", "t", "e">>,
                        entry |-> Entry(<<"C", "r", "e", "a", "t", "e", "d">>, IF env.isDesktop THEN Null ELSE Str(<<"1", "-", "1", "-", "2", "0", "2", "2">>))],
                       [name |-> <<"l", "a", "s", "t", "L", "o", "a", "d", "e", "d", "D", "a", "t", "e">>, entry |-> Entry(<<"D", "a", "t", "a", " ", "l", "a", "s", "t", " ", "l", "o", "a", "d", "e", "d">>, Str(<<"2", "-", "1", "-", "2", "0", "2", "2">>))],
                       [name |-> <<"p", "u", "b", "l", "i", "s", "h", "e", "d", "D", "a", "t", "e">>, entry |-> Entry(<<"P", "u", "b", "l", "i", "s", "h", "e", "d">>, Null)],
                       [name |-> <<"m", "o", "d", "i", "f", "i", "e", "d", "D", "a", "t", "e">>,
                        entry |-> Entry(<<"M", "o", "d", "i", "f", "i", "e", "d">>, IF env.isDesktop THEN Null ELSE Str(<<"2", "-", "1", "-", "2", "0", "2", "2">>))],
                       [name |-> <<"h", "a", "s", "d", "a", "t", "a">>, entry |-> Entry(<<"C", "o", "n", "t", "a", "i", "n", "s", " ", "d", "a", "t", "a">>, Str(<<"Y", "e", "s">>))],
                       [name |-> <<"h", "a", "s", "s", "e", "c", "t", "i", "o", "n", "a", "c", "c", "e", "s", "s">>, entry |-> Entry(<<"S", "e", "c", "t", "i", "o", "n", " ", "A", "c", "c", "e", "s", "s">>, Str(<<"N", "o">>))] >>,
        layout |-> [qTitle |-> <<"D", "e", "m", "o">>]],
       [id |-> <<"A", "p", "p", "P", "r", "o", "p", "s", "L", "i", "s", "t">>, label |-> <<"O", "p", "t", "i", "o", "n", "s">>,
        details |-> << [name |-> <<"t", "h", "e", "m", "e">>, entry |-> Entry(<<"T", "h", "e", "m", "e">>, Str(<<"S", "e", "n", "s", "e">>))],
                       [name |-> <<"o", "w", "n", "e", "r">>, entry |-> Entry(<<"O", "w", "n", "e", "r">>, OwnerValue(env.owner))] >>,
        layout |-> [theme |-> <<"s", "e", "n", "s", "e">>, defaultBookmarkId |-> env.defaultBookmarkId]],
       [id |-> <<"a", "p", "p", ".", "m", "o", "d", "e", "l", ".", "g", "e", "t", "P", "r", "o", "p", "e", "r", "t", "i", "e", "s", "(", ")">>, label |-> <<"M", "e", "t", "a", "d", "a", "t", "a">>,
        properties |-> [qTitle |-> <<"D", "e", "m", "o">>]],
       [id |-> <<"a", "p", "p", ".", "m", "o", "d", "e", "l", ".", "g", "e", "t", "C", "o", "n", "f", "i", "g", "u", "r", "a", "t", "i", "o", "n", "(", ")">>, label |-> <<"C", "o", "n", "f", "i", "g", "u", "r", "a", "t", "i", "o", "n">>,
        details |-> << [name |-> <<"i", "n", "s", "t", "a", "l", "l", "a", "t", "i", "o", "n">>,
                        entry |-> Entry(<<"I", "n", "s", "t", "a", "l", "l", "a", "t", "i", "o", "n">>,
                                        Str(IF env.isDesktop THEN <<"Q", "l", "i", "k", " ", "S", "e", "n", "s", "e", " ", "D", "e", "s", "k", "t", "o", "p">>
                                            ELSE <<"Q", "l", "i", "k", " ", "S", "e", "n", "s", "e", " ", "C", "l", "i", "e", "n", "t", " ", "M", "a", "n", "a", "g", "e", "d">>))],
                       [name |-> <<"S", "S", "O", "E", "n", "a", "b", "l", "e", "d">>, entry |-> Entry(<<"S", "S", "O">>, Str(<<"N", "o">>))] >>,
        layout |-> [qFeatures |-> [qIsDesktop |-> env.isDesktop]]] >>

\* Lines 825-835: the item of the QRS data.
QrsItem(data) ==
    [id |-> <<"/", "q", "r", "s", "/", "a", "p", "p", "/", "{", "i", "d", "}">>, label |-> <<"Q", "R", "S">>,
     details |-> << [name |-> <<"s", "i", "z", "e">>,
                     entry |-> Entry(<<"F", "i", "l", "e", " ", "s", "i", "z", "e", " ", "(", "M", "B", ")">>, Str(toFixed2(data.fileSize)))] >>,
     layout |-> data]

\* _.extend(retval, details): a detail of the same name is replaced in
\* its place, another one is added at the end.
ExtendDetails(retval, details) ==
    LET names == {details[j].name : j \in 1..Len(details)}
        named(name) == details[CHOOSE j \in 1..Len(details) : details[j].name = name]
    IN [i \in 1..Len(retval) |->
           IF retval[i].name \in names THEN named(retval[i].name) ELSE retval[i]]
       \o SelectSeq(details, LAMBDA d : \A i \in 1..Len(retval) : retval[i].name # d.name)

\* Lines 842-846: the details of the summary, of the first k items.
RECURSIVE SummaryDetails(_, _)
SummaryDetails(infoList, k) ==
    IF k = 0 THEN << [name |-> <<"i", "d">>, entry |-> Str(<<"c", "u", "r", "r">>)] >>
    ELSE ExtendDetails(SummaryDetails(infoList, k - 1),
                       IF Has(infoList[k], "details") THEN infoList[k].details ELSE <<>>)

\* getAppInfo's last then (lines 734-850): the four items, the QRS item
\* when args.qrsApp has data, and the summary before them.
getAppInfoOf(env, qrsApp) ==
    LET infoList == AppItems(env)
                    \o (IF ~IsEmpty(DataOf(qrsApp)) THEN <<QrsItem(DataOf(qrsApp))>> ELSE <<>>)
    IN << [id |-> <<"c", "u", "r", "r">>, label |-> <<"S", "u", "m", "m", "a", "r", "y">>,
           details |-> SummaryDetails(infoList, Len(infoList))] >> \o infoList

\* getAppInfo's list on a desktop, whose app has no owner.
AppInfoList(defaultBookmarkId) ==
    LET env == [isDesktop |-> TRUE, qrs |-> "empty", owner |-> Null,
                defaultBookmarkId |-> defaultBookmarkId]
    IN getAppInfoOf(env, QrsApp(env))

\* appInfo.script: the sections of the script, in the host's order; index
\* is the section's place in the script.
ScriptSections ==
    << [id |-> <<"s", "c", "0">>, label |-> <<"M", "a", "i", "n">>, index |-> 0, script |-> <<"S", "E", "T", " ", "x", ";">>],
       [id |-> <<"s", "c", "1">>, label |-> <<"S", "a", "l", "e", "s">>, index |-> 1, script |-> <<"L", "O", "A", "D">>] >>

\* app.getScript(): the sections' text in one.
ScriptText == <<"S", "E", "T", " ", "x", ";", "L", "O", "A", "D">>

\* util.substr_utf8_bytes on a text of one-byte characters.
substr_utf8_bytes(str, pos, len) == SubSeq(str, pos + 1, pos + len)

\* Lines 886-889: the error entry of a report of the syntax check.
ScriptError(a, script) ==
    [message |-> <<"L", "i", "n", "e", " ">> \o NumText(a.qLineInTab),
     errorData |-> <<substr_utf8_bytes(script, a.qTextPos, a.qErrLen)>>]

\* Lines 869-877: `item.code = item.code || {}` and the script as code.
WithScriptCode(item) ==
    LET code == IF Has(item, "code") THEN item.code ELSE EmptyObject
    IN Put(item, "code",
           IF Has(item, "script") /\ ~Has(code, "script")
           THEN Put(code, "script", [label |-> "Script", value |-> [text |-> item.script]])
           ELSE code)

\* A section flagged as soon as the syntax check reports anything.
getScriptItemAnyReport(item, validation, script) ==
    LET coded == WithScriptCode(item)
    IN IF Len(validation) > 0
       THEN Put(Put(coded, "icon", "debug"), "errors",
                Arr([j \in 1..Len(validation) |-> ScriptError(validation[j], script)]))
       ELSE coded

\* Lines 868-893: what the forEach does with a section.
getScriptItem(item, validation, script) ==
    LET coded == WithScriptCode(item)
        hits == SelectSeq(validation, LAMBDA a : a.qTabIx = item.index)
        had == IF Has(item, "errors") /\ Truthy(item.errors) THEN item.errors.v ELSE <<>>
    IN IF Len(validation) > 0 /\ Len(hits) > 0
       THEN Put(Put(coded, "icon", "debug"), "errors",
                Arr(had \o [j \in 1..Len(hits) |-> ScriptError(hits[j], script)]))
       ELSE coded

\* getScriptInfo's then (lines 864-897)
getScriptInfoOf(info, validation, script) ==
    [i \in 1..Len(info) |-> getScriptItem(info[i], validation, script)]

\* getScriptInfo's list: two sections, the second with a syntax error.
ScriptInfoList ==
    getScriptInfoOf(ScriptSections,
                    <<[qTabIx |-> 1, qLineInTab |-> 1, qTextPos |-> 6, qErrLen |-> 4]>>,
                    ScriptText)

\* getFieldInfo's list (lines 607-700): the data model (getDataModelInfo,
\* lines 516-601, which sets the layout code itself), then a field with
\* tags.
FieldInfoList ==
    << [id |-> <<"a", "p", "p", ".", "m", "o", "d", "e", "l", ".", "e", "n", "g", "i", "n", "e", "A", "p", "p", ".", "g", "e", "t", "T", "a", "b", "l", "e", "s", "A", "n", "d", "K", "e", "y", "s", "(", ")">>, label |-> <<"D", "a", "t", "a", " ", "m", "o", "d", "e", "l">>,
        details |-> << [name |-> <<"t", "a", "b", "l", "e", "s">>, entry |-> Entry(<<"T", "a", "b", "l", "e", "s">>, Arr(<<Str(<<"S", "a", "l", "e", "s">>)>>))],
                       [name |-> <<"k", "e", "y", "s">>, entry |-> Entry(<<"K", "e", "y", "s">>, Arr(<<>>))] >>,
        layout |-> [qtr |-> <<<<"S", "a", "l", "e", "s">>>>],
        profile |-> Null,
        code |-> [layout |-> [label |-> "Datamodel", value |-> JsonStringify([qtr |-> <<<<"S", "a", "l", "e", "s">>>>])]]],
       [id |-> <<"A", "m", "o", "u", "n", "t">>, label |-> <<"A", "m", "o", "u", "n", "t">>, count |-> 3, icon |-> "",
        details |-> << [name |-> <<"t", "a", "b", "l", "e">>, entry |-> Entry(<<"T", "a", "b", "l", "e">>, Arr(<<Str(<<"S", "a", "l", "e", "s">>)>>))],
                       [name |-> <<"t", "a", "g", "s">>,
                        entry |-> Entry(<<"T", "a", "g", "s">>, Arr(<<Str(<<"$", "n", "u", "m">>), Str(<<"$", "i", "n", "t">>)>>))] >>,
        properties |-> [qName |-> <<"A", "m", "o", "u", "n", "t">>]] >>

\* The objects on the sheets of the app: two bar charts, one of them with
\* errors, and an extension.
HostSheetChoices ==
    << [type |-> T_bar, sheet |-> 1, err |-> FALSE],
       [type |-> T_bar, sheet |-> 2, err |-> TRUE],
       [type |-> T_ext, sheet |-> 2, err |-> FALSE] >>

\* appInfo.dimensions: a dimension that did not validate.
DimensionRaw ==
    << [id |-> <<"d", "m", "1">>, label |-> <<"R", "e", "g", "i", "o", "n">>,
        details |-> << [name |-> <<"d", "e", "f", "i", "n", "i", "t", "i", "o", "n">>, entry |-> Entry(<<"D", "e", "f", "i", "n", "i", "t", "i", "o", "n">>, Str(<<"R", "e", "g">>))] >>,
        errors |-> Arr(<<[message |-> <<"b", "a", "d", " ", "f", "i", "e", "l", "d">>]>>)] >>

\* appInfo.measures
MeasureRaw ==
    << [id |-> <<"m", "s", "1">>, label |-> <<"T", "o", "t", "a", "l">>,
        details |-> << [name |-> <<"e", "x", "p", "r", "e", "s", "s", "i", "o", "n">>, entry |-> Entry(<<"E", "x", "p", "r", "e", "s", "s", "i", "o", "n">>, Str(<<"S", "u", "m", "(", "A", "m", "o", "u", "n", "t", ")">>))] >>,
        properties |-> [qMeasure |-> [qDef |-> <<"S", "u", "m", "(", "A", "m", "o", "u", "n", "t", ")">>]]] >>

\* appInfo.masterObjects: a master visualization with a child.
MasterObjectRaw ==
    << [id |-> <<"m", "o", "1">>, label |-> <<"B", "o", "x">>,
        details |-> << [name |-> <<"t", "y", "p", "e">>, entry |-> Entry(<<"T", "y", "p", "e">>, Str(<<"c", "o", "n", "t", "a", "i", "n", "e", "r">>))] >>,
        properties |-> [qInfo |-> [qId |-> <<"m", "o", "1">>, qType |-> <<"c", "o", "n", "t", "a", "i", "n", "e", "r">>], qData |-> <<>>],
        children |-> Arr(<<[id |-> <<"c", "h", "1">>,
                            qData |-> <<[name |-> <<"m", "s", "r", "s">>,
                                         entry |-> Entry(<<"M", "s", "r", "s">>, Arr(<<Str(<<"T", "o", "t", "a", "l">>)>>))]>>]>>)] >>

\* appInfo.alternateStates
AlternateStateInfoList == << [id |-> <<"s", "t", "1">>, label |-> <<"s", "t", "1">>] >>

\* appInfo.variables, not reserved
VariableRaw ==
    << [id |-> <<"v", "r", "1">>, label |-> <<"v", "M", "a", "x">>,
        details |-> << [name |-> <<"d", "e", "f", "i", "n", "i", "t", "i", "o", "n">>, entry |-> Entry(<<"D", "e", "f", "i", "n", "i", "t", "i", "o", "n">>, Str(<<"=", "M", "a", "x", "(", "A", "m", "o", "u", "n", "t", ")">>))] >>] >>

\* appInfo.bookmarks
BookmarkRaw ==
    << [id |-> <<"b", "m", "1">>, label |-> <<"S", "t", "a", "r", "t">>,
        details |-> << [name |-> <<"f", "i", "e", "l", "d", "s">>, entry |-> Entry(<<"F", "i", "e", "l", "d", "s">>, Str(<<"R", "e", "g", "i", "o", "n">>))] >>],
       [id |-> <<"b", "m", "2">>, label |-> <<"O", "t", "h", "e", "r">>,
        details |-> << [name |-> <<"d", "e", "s", "c", "r", "i", "p", "t", "i", "o", "n">>, entry |-> Entry(<<"D", "e", "s", "c", "r", "i", "p", "t", "i", "o", "n">>, Str(<<>>))],
                       [name |-> <<"s", "h", "e", "e", "t">>, entry |-> Entry(<<"S", "h", "e", "e", "t">>, Undefined)],
                       [name |-> <<"s", "t", "a", "t", "e">>, entry |-> Undefined] >>] >>

\* getSheetInfo: a preview for every sheet but the summary (set by
\* SheetInfoOf).
getSheetInfo == SheetInfoOf(HostSheetChoices, FALSE)

getDimensionInfo == [i \in 1..Len(DimensionRaw) |-> WithSearchTerms(DimensionRaw[i], <<"d", "e", "f", "i", "n", "i", "t", "i", "o", "n">>)]

getMeasureInfo == [i \in 1..Len(MeasureRaw) |-> WithSearchTerms(MeasureRaw[i], <<"e", "x", "p", "r", "e", "s", "s", "i", "o", "n">>)]

getMasterObjectInfo ==
    [i \in 1..Len(MasterObjectRaw) |->
        LET a == MasterObjectRaw[i]
            data == IF Has(a, "children") /\ Truthy(a.children) /\ Len(a.children.v) > 0
                    THEN getChildrenDataDefinition(a.children.v)
                    ELSE getDataDefinition(a.properties)
        IN [a EXCEPT !.details = @ \o data]
           @@ [searchTerms |-> DataSearchTerms(data),
               preview |-> [url |-> getSingleVizUrl(CurrAppId, a.properties.qInfo.qId)]]]

\* The system variables item of line 480: the locale info as properties.
SystemVariables ==
    [id |-> <<"a", "p", "p", ".", "m", "o", "d", "e", "l", ".", "l", "a", "y", "o", "u", "t", ".", "q", "L", "o", "c", "a", "l", "e", "I", "n", "f", "o">>, label |-> <<"S", "y", "s", "t", "e", "m", " ", "v", "a", "r", "i", "a", "b", "l", "e", "s">>,
     properties |-> [qDecimalSep |-> <<".">>]]

\* The list with the system variables item after the variables.
getVariableInfoAppended(info) ==
    [i \in 1..Len(info) |-> WithSearchTerms(info[i], <<"d", "e", "f", "i", "n", "i", "t", "i", "o", "n">>)] \o <<SystemVariables>>

\* getVariableInfo's then (lines 468-487) on the list appInfo.variables
\* resolved with: the search terms by item, then the unshift.
getVariableInfoOf(info) ==
    <<SystemVariables>> \o [i \in 1..Len(info) |-> WithSearchTerms(info[i], <<"d", "e", "f", "i", "n", "i", "t", "i", "o", "n">>)]

getVariableInfo == getVariableInfoOf(VariableRaw)

getBookmarkInfo == [i \in 1..Len(BookmarkRaw) |-> WithSearchTerms(BookmarkRaw[i], <<"f", "i", "e", "l", "d", "s">>)]

\* What each of the ten promises resolves with.
RequestResult(c, defaultBookmarkId) ==
    CASE c = "app" -> AppInfoList(defaultBookmarkId)
      [] c = "script" -> ScriptInfoList
      [] c = "field" -> FieldInfoList
      [] c = "sheet" -> getSheetInfo
      [] c = "dimension" -> getDimensionInfo
      [] c = "measure" -> getMeasureInfo
      [] c = "masterObject" -> getMasterObjectInfo
      [] c = "alternate-state" -> AlternateStateInfoList
      [] c = "variable" -> getVariableInfo
      [] c = "bookmark" -> getBookmarkInfo

\* F applied to the value of x: a value that is used more than once is
\* computed once.
With(x, F(_)) == CHOOSE r \in {F(v) : v \in {x}} : TRUE

(***************************************************************************)
(* The modal's scope and its handlers                                      *)
(*                                                                         *)
(* $scope.allItems and $scope.filteredItems are objects whose keys are     *)
(* iterated in the order they were added: [keys, at].                      *)
(***************************************************************************)
EmptyOrdered == [keys |-> <<>>, at |-> EmptyObject]
ObjSet(o, k, v) ==
    [keys |-> IF k \in DOMAIN o.at THEN o.keys ELSE Append(o.keys, k),
     at |-> Put(o.at, k, v)]

\* Lines 1127-1143, mutated: the list shown and the items are not reset.
InitialScopeKeeping(old) ==
    IF old = NoScope
    THEN [loading |-> TRUE, activeAsset |-> "app", activeItem |-> Null,
          activeSubItem |-> Null, activeSubItemIx |-> 0, allItems |-> EmptyOrdered,
          filteredItems |-> EmptyOrdered, selected |-> <<>>, query |-> <<>>]
    ELSE [old EXCEPT !.loading = TRUE]

\* Lines 1127-1143: the scope of a modal that is opened. `old` is what the
\* dialog service hands the controller: a new scope each time.
InitialScope(old) ==
    [loading |-> TRUE, activeAsset |-> "app", activeItem |-> Null,
     activeSubItem |-> Null, activeSubItemIx |-> 0, allItems |-> EmptyOrdered,
     filteredItems |-> EmptyOrdered, selected |-> <<>>, query |-> <<>>]

\* An item object (not null, undefined, false or 0).
IsItem(x) == ~Has(x, "t")

\* Array.prototype.indexOf(x) !== -1
IndexIn(list, x) == {i \in 1..Len(list) : list[i] = x}

\* $scope.subItemClicked (lines 1212-1222)
subItemClicked(sc, index) ==
    IF IsItem(sc.activeItem) /\ HasItems(sc.activeItem)
    THEN [sc EXCEPT !.activeSubItem =
                        IF index + 1 <= Len(sc.activeItem.items.v)
                        THEN sc.activeItem.items.v[index + 1] ELSE Undefined,
                    !.activeSubItemIx = index]
    ELSE [sc EXCEPT !.activeSubItem = Null, !.activeSubItemIx = 0]

\* Lines 1167-1189 without the reset of the sub-item at line 1187.
assetClickedNoReset(sc, assetId) ==
    LET s1 == IF sc.activeAsset # assetId THEN [sc EXCEPT !.activeItem = Null] ELSE sc
        s2 == [s1 EXCEPT !.activeAsset = assetId]
    IN IF Has(s2.filteredItems.at, assetId)
       THEN LET sel == s2.filteredItems.at[assetId]
                s3 == [s2 EXCEPT !.selected = sel]
            IN IF s3.activeItem = Null \/ IndexIn(sel, s3.activeItem) = {}
               THEN [s3 EXCEPT !.activeItem = IF sel = <<>> THEN Undefined ELSE sel[1]]
               ELSE s3
       ELSE s2

\* $scope.assetClicked (lines 1167-1189)
assetClicked(sc, assetId) ==
    LET s1 == IF sc.activeAsset # assetId THEN [sc EXCEPT !.activeItem = Null] ELSE sc
        s2 == [s1 EXCEPT !.activeAsset = assetId]
    IN IF Has(s2.filteredItems.at, assetId)
       THEN LET sel == s2.filteredItems.at[assetId]
                s3 == [s2 EXCEPT !.selected = sel]
                s4 == IF s3.activeItem = Null \/ IndexIn(sel, s3.activeItem) = {}
                      THEN [s3 EXCEPT !.activeItem = IF sel = <<>> THEN Undefined ELSE sel[1]]
                      ELSE s3
            IN subItemClicked(s4, 0)
       ELSE s2

\* $scope.itemClicked (lines 1197-1204)
itemClicked(sc, item) == subItemClicked([sc EXCEPT !.activeItem = item], 0)

\* `k < children` for an array of child objects: the array converts to
\* the number of its string, which for one or more objects is NaN, and for
\* no element 0: the comparison is false for every k >= 0.
ChildrenLoopRuns(k, children) == FALSE

\* The places of $scope.allItems with the categories in the reverse of
\* the order of the keys.
ItemPlacesLastFirst(all) ==
    Flatten([n \in 1..Len(all.keys) |->
        [j \in 1..Len(all.at[all.keys[Len(all.keys) + 1 - n]]) |->
            [i |-> all.keys[Len(all.keys) + 1 - n], j |-> j]]])

\* The places [i, j] of $scope.allItems in the order navToItem visits them.
ItemPlaces(all) ==
    Flatten([n \in 1..Len(all.keys) |->
        [j \in 1..Len(all.at[all.keys[n]]) |-> [i |-> all.keys[n], j |-> j]]])

\* Whether navToItem returns at the place: the id matches, or a child's
\* id matches in the loop over the children.
NavMatch(all, pl, id) ==
    LET a == all.at[pl.i][pl.j] IN
    IF id = a.id THEN "item"
    ELSE IF /\ Has(a, "children") /\ Truthy(a.children) /\ Len(a.children.v) > 0
            /\ \E k \in 0..(Len(a.children.v) - 1) :
                  /\ \A m \in 0..k : ChildrenLoopRuns(m, a.children.v)
                  /\ a.children.v[k + 1].id = id
    THEN "child"
    ELSE "none"

\* $scope.navToItem (lines 1230-1260). subItemIx is never assigned: the
\* sub-item clicked in the children branch is subItemClicked(undefined).
navToItem(sc, id) ==
    LET places == ItemPlaces(sc.allItems)
        hits == {n \in 1..Len(places) : NavMatch(sc.allItems, places[n], id) # "none"}
    IN IF hits = {} THEN sc
       ELSE LET n == CHOOSE n \in hits : \A m \in hits : n <= m
                pl == places[n]
                s1 == itemClicked(assetClicked(sc, pl.i), sc.allItems.at[pl.i][pl.j])
            IN IF NavMatch(sc.allItems, pl, id) = "item" THEN s1
               ELSE IF IsItem(s1.activeItem) /\ HasItems(s1.activeItem)
               THEN [s1 EXCEPT !.activeSubItem = Undefined, !.activeSubItemIx = Undefined]
               ELSE [s1 EXCEPT !.activeSubItem = Null, !.activeSubItemIx = 0]

\* matchSearchQuery (lines 1123-1125); input is the text of an attribute of
\* the item, when it has it.
matchSearchQuery(a, attr, query) ==
    /\ Has(a, attr)
    /\ a[attr] # <<>>
    /\ Contains(toLowerCase(a[attr]), toLowerCase(query))

\* The filter of lines 1340-1345, mutated: the case of the text is kept.
ItemMatchesCased(a, query) ==
    \/ Len(query) = 0
    \/ \E attr \in {"id", "label", "searchTerms"} : Has(a, attr) /\ Contains(a[attr], query)

\* The filter of lines 1340-1345.
ItemMatches(a, query) ==
    \/ Len(query) = 0
    \/ matchSearchQuery(a, "id", query)
    \/ matchSearchQuery(a, "label", query)
    \/ matchSearchQuery(a, "searchTerms", query)

\* The items of every category that match the query (lines 1338-1347),
\* set on filteredItems: a key that is new is added after the others.
FilterAll(all, query, filtered) ==
    [keys |-> filtered.keys \o SelectSeq(all.keys, LAMBDA k : ~Has(filtered.at, k)),
     at |-> [k \in DOMAIN filtered.at \cup DOMAIN all.at |->
                IF Has(all.at, k)
                THEN SelectSeq(all.at[k], LAMBDA a : ItemMatches(a, query))
                ELSE filtered.at[k]]]

\* The watcher of lines 1335-1354, with the first item of the filtered
\* list made active whatever the active item is.
searchWatcherFirst(sc, query) ==
    With([sc EXCEPT !.filteredItems = FilterAll(sc.allItems, query, sc.filteredItems),
                    !.activeItem = Null],
         LAMBDA s1 : assetClicked(s1, s1.activeAsset))

\* The watcher of search.query (lines 1335-1354).
searchWatcher(sc, query) ==
    With([sc EXCEPT !.filteredItems = FilterAll(sc.allItems, query, sc.filteredItems)],
         LAMBDA s1 : assetClicked(s1, s1.activeAsset))

(***************************************************************************)
(* The load chain of the modal (lines 1272-1389)                           *)
(***************************************************************************)
\* How many requests may resolve before a pending request written earlier
\* in the $q.all.
MaxEarly == 1

\* Lines 1295-1300: the arrays of args, prepared, under their keys. args
\* holds the keys in the order the requests resolved: $q.all adds a key
\* when its promise resolves; extensionList, added last, is no array.
PreparedItems(argsKeys, defaultBookmarkId, acc) ==
    LET new == {argsKeys[n] : n \in 1..Len(argsKeys)} IN
    [keys |-> acc.keys \o SelectSeq(argsKeys, LAMBDA k : ~Has(acc.at, k)),
     at |-> [k \in DOMAIN acc.at \cup new |->
                IF k \in new
                THEN With(RequestResult(k, defaultBookmarkId),
                          LAMBDA res : [i \in 1..Len(res) |-> prepareItem(res[i])])
                ELSE acc.at[k]]]

\* Lines 1302-1305: the chart and extension lists.
WithDerivedItems(all, sheetInfo) ==
    With(getUniqueAppObjectsFromSheets(sheetInfo, ExtensionList, CurrAppId),
         LAMBDA uniqObjects :
            ObjSet(ObjSet(all, "chart", ChartItems(uniqObjects)),
                   "extension", ExtensionItems(uniqObjects)))

\* Lines 1308-1310: the default bookmark of the AppPropsList item.
DefaultBookmarkOf(all) ==
    LET app == all.at["app"]
        i == CHOOSE i \in 1..Len(app) :
                /\ app[i].id = <<"A", "p", "p", "P", "r", "o", "p", "s", "L", "i", "s", "t">>
                /\ \A j \in 1..(i - 1) : app[j].id # <<"A", "p", "p", "P", "r", "o", "p", "s", "L", "i", "s", "t">>
    IN app[i].layout.defaultBookmarkId

\* The list the marking loop reads: $scope.allItems.bookmarks.
MarkedListKey == "bookmarks"

\* Lines 1312-1324: the default bookmark is marked. Reading the length of
\* a list that allItems does not have throws a TypeError.
MarkDefaultBookmark(all) ==
    LET id == DefaultBookmarkOf(all) IN
    IF ~Truthy(id) THEN [threw |-> FALSE, all |-> all]
    ELSE IF ~Has(all.at, MarkedListKey) THEN [threw |-> TRUE, all |-> all]
    ELSE LET list == all.at[MarkedListKey]
             hits == {i \in 1..Len(list) : list[i].id = id.v}
         IN IF hits = {} THEN [threw |-> FALSE, all |-> all]
            ELSE LET i == CHOOSE i \in hits : \A j \in hits : i <= j
                     marked == Put([list[i] EXCEPT !.details =
                                       Append(@, [id |-> "default",
                                                  label |-> <<"S", "t", "a", "r", "t", " ", "b", "o", "o", "k", "m", "a", "r", "k">>,
                                                  value |-> <<Str(<<"H", "i", "n", "t">>)>>])],
                                   "icon", "bookmark")
                 IN [threw |-> FALSE,
                     all |-> ObjSet(all, MarkedListKey, [list EXCEPT ![i] = marked])]

\* `a.errors && a.errors.length`
HasErrors(a) == Has(a, "errors") /\ TruthyLength(a.errors)

\* Lines 1360-1376 for one item of category i: the item as it is left
\* (asset set when it has errors, its sub-items with errors relabelled) and
\* what is pushed to the errors list.
ErrorsOfItem(a, i) ==
    LET a1 == IF HasErrors(a) THEN Put(a, "asset", i) ELSE a
        subs == IF HasItems(a) THEN a.items.v ELSE <<>>
        marked == [k \in 1..Len(subs) |->
                      IF HasErrors(subs[k])
                      THEN Put(Put(Put(subs[k], "asset", i), "label", a.label), "icon", "debug")
                      ELSE subs[k]]
        a2 == IF subs = <<>> THEN a1 ELSE [a1 EXCEPT !.items = Arr(marked)]
    IN [item |-> a2,
        pushed |-> (IF HasErrors(a) THEN <<a2>> ELSE <<>>)
                   \o SelectSeq(marked, LAMBDA b : HasErrors(b))]

\* Lines 1357-1379: the errors list, collected over the categories in the
\* order of allItems' keys, errors itself left out.
CollectErrors(all) ==
    LET keys == SelectSeq(all.keys, LAMBDA k : k # "errors")
        done == [k \in DOMAIN all.at \ {"errors"} |->
                    [j \in 1..Len(all.at[k]) |-> ErrorsOfItem(all.at[k][j], k)]]
    IN With(done, LAMBDA d :
         [keys |-> IF Has(all.at, "errors") THEN all.keys ELSE Append(all.keys, "errors"),
          at |-> [k \in DOMAIN all.at \cup {"errors"} |->
                     IF k = "errors"
                     THEN Flatten([n \in 1..Len(keys) |->
                              Flatten([j \in 1..Len(d[keys[n]]) |-> d[keys[n]][j].pushed])])
                     ELSE [j \in 1..Len(d[k]) |-> d[k][j].item]]])

\* Lines 1312-1379 without the first call of the watcher.
thenMarkedNoTrigger(sc, derived, marked) ==
    IF marked.threw
    THEN [threw |-> TRUE, sc |-> [sc EXCEPT !.allItems = derived]]
    ELSE With(CollectErrors(marked.all), LAMBDA all :
            [threw |-> FALSE,
             sc |-> [sc EXCEPT !.allItems = all,
                               !.selected = all.at["app"],
                               !.activeItem = IF Len(all.at["app"]) = 0 THEN Num(0)
                                              ELSE all.at["app"][1],
                               !.loading = FALSE]])

\* The second `then` from the marking of the default bookmark on (lines
\* 1312-1379), and the digest that follows it, in which the new watcher of
\* search.query is called for the first time.
thenMarked(sc, derived, marked) ==
    IF marked.threw
    THEN [threw |-> TRUE, sc |-> [sc EXCEPT !.allItems = derived]]
    ELSE With(CollectErrors(marked.all), LAMBDA all :
            LET app == all.at["app"]
                s1 == [sc EXCEPT !.allItems = all,
                                 !.selected = app,
                                 !.activeItem = IF Len(app) = 0 THEN Num(0) ELSE app[1],
                                 !.loading = FALSE]
            IN [threw |-> FALSE, sc |-> searchWatcher(s1, s1.query)])

\* The second `then` (lines 1292-1379): threw tells whether it threw, sc
\* is the scope it leaves.
loadThen(sc, argsKeys, defaultBookmarkId) ==
    With(WithDerivedItems(PreparedItems(argsKeys, defaultBookmarkId, sc.allItems),
                          RequestResult("sheet", defaultBookmarkId)),
         LAMBDA derived :
            With(MarkDefaultBookmark(derived), LAMBDA marked : thenMarked(sc, derived, marked)))

\* allItems as the second `then` leaves it for the given order of args' keys
\* when nothing throws.
AllItemsOf(argsKeys, defaultBookmarkId) ==
    With(WithDerivedItems(PreparedItems(argsKeys, defaultBookmarkId, EmptyOrdered),
                          RequestResult("sheet", defaultBookmarkId)),
         LAMBDA derived : CollectErrors(MarkDefaultBookmark(derived).all))

\* Lines 1381-1389, mutated: the error handler ends the loading state.
catchErrorStopsLoading(sc) == [sc EXCEPT !.loading = FALSE]

\* Lines 1381-1389: the error is logged and the dialog shown; the scope is
\* left as it is.
catchError(sc) == sc

(***************************************************************************)
(* The load chain, step by step (lines 1273-1389)                          *)
(*                                                                         *)
(* The ten requests are made when the modal's controller runs; each        *)
(* resolves or rejects on its own. The chain of a dialog that is closed    *)
(* writes to a scope no one sees and is not followed further.              *)
(***************************************************************************)
\* The pending request written first in the $q.all.
FirstPending ==
    Categories[CHOOSE i \in 1..Len(Categories) :
                  /\ Categories[i] \in pending
                  /\ \A j \in 1..(i - 1) : Categories[j] \notin pending]

loadFrame == <<oaVars, oaHist, objVars, ctlVars, prevSession>>

\* One of the ten promises resolves: $q.all sets results[key].
RequestResolved(c) ==
    /\ dialog = "open"
    /\ loadState = "requests"
    /\ c \in pending
    /\ c = FirstPending \/ early < MaxEarly
    /\ early' = IF c = FirstPending THEN early ELSE early + 1
    /\ pending' = pending \ {c}
    /\ args' = Append(args, c)
    /\ loadState' = IF pending = {c} THEN "extensions" ELSE "requests"
    /\ UNCHANGED <<scope, errorDialogs, host, loadFrame>>

\* One of the ten promises rejects: $q.all rejects, the `then` handlers
\* are skipped and the catch handler runs.
RequestRejected(c) ==
    /\ dialog = "open"
    /\ loadState = "requests"
    /\ c \in pending
    /\ scope' = catchError(scope)
    /\ errorDialogs' = errorDialogs + 1
    /\ loadState' = "failed"
    /\ UNCHANGED <<pending, args, early, host, loadFrame>>

\* appInfo.extensions() resolves: the second `then` runs; what it throws
\* goes to the catch handler.
ExtensionsResolved ==
    /\ dialog = "open"
    /\ loadState = "extensions"
    /\ \E r \in {loadThen(scope, args, host)} :
          /\ scope' = IF r.threw THEN catchError(r.sc) ELSE r.sc
          /\ loadState' = IF r.threw THEN "failed" ELSE "done"
          /\ errorDialogs' = IF r.threw THEN errorDialogs + 1 ELSE errorDialogs
    /\ UNCHANGED <<pending, args, early, host, loadFrame>>

\* appInfo.extensions() rejects.
ExtensionsRejected ==
    /\ dialog = "open"
    /\ loadState = "extensions"
    /\ scope' = catchError(scope)
    /\ errorDialogs' = errorDialogs + 1
    /\ loadState' = "failed"
    /\ UNCHANGED <<pending, args, early, host, loadFrame>>

\* The modal of the current app has just been shown: its controller ran.
InitLoad ==
    /\ _apps = (CurrAppId :> 1)
    /\ promises = <<"resolved">>
    /\ lastRet = [p |-> 1, st |-> "resolved"]
    /\ openCalls = [a \in AppIds \cup {"object"} |-> 0]
    /\ returned = [a \in AppIds \cup {"object"} |-> {}]
    /\ calls = [a \in AppIds \cup {"object"} |-> 0]
    /\ sheetsIn = <<>>
    /\ uniqOut = EmptyObject
    /\ InfoIdle
    /\ fsm = "MODAL" /\ modal = "dialog" /\ dialog = "open" /\ pc = "idle"
    /\ destroyed = FALSE
    /\ canSwitchToEdit = TRUE
    /\ scope = InitialScope(NoScope)
    /\ pending = CategorySet
    /\ args = <<>>
    /\ loadState = "requests"
    /\ errorDialogs = 0
    /\ early = 0
    /\ host \in DefaultBookmarkIds
    /\ prevSession = "none"

NextLoad ==
    \/ \E c \in CategorySet : RequestResolved(c)
    \/ \E c \in CategorySet : RequestRejected(c)
    \/ ExtensionsResolved
    \/ ExtensionsRejected

SpecLoad == InitLoad /\ [][NextLoad]_vars

(***************************************************************************)
(* The controller and the modal with its user (lines 1076-1474)            *)
(***************************************************************************)
\* The orders in which the ten requests resolve before the user sees the
\* items: as written, and the other way round.
Reverse(s) == [i \in 1..Len(s) |-> s[Len(s) + 1 - i]]
ResolutionOrders == {Categories, Reverse(Categories)}

\* What the user types in the search field.
Queries == {<<>>, <<"a", "m">>, <<"L", "O">>}

\* The ids navToItem is called with: a bookmark, a section that is listed
\* under errors too, the child of the master object, an unknown id.
NavIds == {<<"b", "m", "2">>, <<"s", "c", "1">>, <<"c", "h", "1">>, <<"z", "z">>, <<"b", "a", "r">>}

\* fsm.open(currApp.id) (lines 1083-1094): from IDLE the machine enters
\* MODAL and showAppInspectorForApp runs up to its await.
fsmOpen ==
    IF fsm = "IDLE"
    THEN LET r == openApp([kind |-> "string", id |-> CurrAppId]) IN
         /\ fsm' = "MODAL"
         /\ _apps' = r.c
         /\ promises' = r.p
         /\ lastRet' = [p |-> r.ret, st |-> r.p[r.ret]]
         /\ pc' = "await"
         /\ UNCHANGED <<oaHist, objVars, modal, dialog, destroyed, canSwitchToEdit,
                        scope, loadVars, prevSession>>
    ELSE UNCHANGED vars

\* $scope.open (lines 1451-1455); inEdit is $scope.object.inEditState().
Open(inEdit) ==
    /\ ~destroyed
    /\ IF inEdit THEN fsmOpen ELSE UNCHANGED vars

\* $scope.switchToEdit (lines 1437-1444): the mode is set and $scope.open
\* runs after the digest, in edit mode.
switchToEdit ==
    /\ ~destroyed
    /\ IF canSwitchToEdit THEN fsmOpen ELSE UNCHANGED vars

\* The await of line 1110 is over: the dialog is shown, its controller
\* sets the scope up and makes the ten requests (lines 1113-1404).
showAppInspectorForApp ==
    /\ pc = "await"
    /\ promises[lastRet.p] = "resolved"
    /\ pc' = "idle"
    /\ modal' = "dialog"
    /\ dialog' = "open"
    /\ scope' = InitialScope(scope)
    /\ pending' = CategorySet
    /\ args' = <<>>
    /\ loadState' = "requests"
    /\ errorDialogs' = 0
    /\ early' = 0
    /\ UNCHANGED <<oaVars, oaHist, objVars, fsm, destroyed, canSwitchToEdit, host, prevSession>>

\* All ten promises have resolved, in the given order: $q.all resolves.
RequestsResolved(order) ==
    /\ dialog = "open"
    /\ loadState = "requests"
    /\ pending' = {}
    /\ args' = order
    /\ loadState' = "extensions"
    /\ UNCHANGED <<scope, errorDialogs, early, host, loadFrame>>

userFrame == <<oaVars, oaHist, objVars, ctlVars, loadVars, prevSession>>

AssetClicked(assetId) ==
    /\ dialog = "open"
    /\ scope' = assetClicked(scope, assetId)
    /\ UNCHANGED userFrame

\* An item of the list shown is clicked.
ItemClicked(j) ==
    /\ dialog = "open"
    /\ j \in 1..Len(scope.selected)
    /\ scope' = itemClicked(scope, scope.selected[j])
    /\ UNCHANGED userFrame

\* A sub-item of the active item is clicked.
SubItemClicked(index) ==
    /\ dialog = "open"
    /\ IsItem(scope.activeItem) /\ HasItems(scope.activeItem)
    /\ index \in 0..(Len(scope.activeItem.items.v) - 1)
    /\ scope' = subItemClicked(scope, index)
    /\ UNCHANGED userFrame

NavToItem(id) ==
    /\ dialog = "open"
    /\ scope' = navToItem(scope, id)
    /\ UNCHANGED userFrame

\* The user changes search.query; the watcher, which is there once the
\* second `then` has run to its end, is called in the same digest.
SetQuery(q) ==
    /\ dialog = "open"
    /\ q # scope.query
    /\ scope' = IF loadState = "done"
                THEN searchWatcher([scope EXCEPT !.query = q], q)
                ELSE [scope EXCEPT !.query = q]
    /\ UNCHANGED userFrame

\* How far the load of the session was when it is closed.
SessionEnd == IF loadState \in {"requests", "extensions"} THEN "loading" ELSE loadState

\* modal.close() on the dialog that is shown.
modalClose ==
    /\ dialog' = IF dialog = "open" THEN "closing" ELSE dialog
    /\ prevSession' = IF dialog = "open" THEN SessionEnd ELSE prevSession

\* The Done button: $scope.close (lines 1392-1394).
Done ==
    /\ dialog = "open"
    /\ modalClose
    /\ UNCHANGED <<oaVars, oaHist, objVars, fsm, modal, pc, destroyed, canSwitchToEdit,
                   scope, loadVars>>

\* closeOnEscape (line 1403): the dialog service closes the dialog.
Escape ==
    /\ dialog = "open"
    /\ modalClose
    /\ UNCHANGED <<oaVars, oaHist, objVars, fsm, modal, pc, destroyed, canSwitchToEdit,
                   scope, loadVars>>

\* The controller's $destroy (lines 1471-1473): closeAppInspectorForApp
\* (lines 1418-1423).
closeAppInspectorForApp ==
    /\ ~destroyed
    /\ destroyed' = TRUE
    /\ IF modal = "dialog"
       THEN modalClose /\ modal' = "null"
       ELSE UNCHANGED <<dialog, prevSession, modal>>
    /\ UNCHANGED <<oaVars, oaHist, objVars, fsm, pc, canSwitchToEdit, scope, loadVars>>

\* fsm.close(): the transition from MODAL to IDLE.
fsmClose == IF fsm = "MODAL" THEN "IDLE" ELSE fsm

\* modal.closed resolves (lines 1407-1410), mutated: the machine is only
\* closed when the modal is still set.
modalClosedKeepsState == IF modal = "dialog" THEN fsmClose ELSE fsm

\* modal.closed resolves (lines 1407-1410): the state of the machine after
\* the handler.
modalClosed == fsmClose

ModalClosed ==
    /\ dialog = "closing"
    /\ dialog' = "none"
    /\ fsm' = modalClosed
    /\ modal' = "null"
    /\ UNCHANGED <<oaVars, oaHist, objVars, pc, destroyed, canSwitchToEdit, scope,
                   loadVars, prevSession>>

\* The extension's controller has been made; the app has one of the
\* default bookmarks.
Init ==
    /\ InitApps
    /\ sheetsIn = <<>>
    /\ uniqOut = EmptyObject
    /\ InfoIdle
    /\ ModalIdle
    /\ canSwitchToEdit \in BOOLEAN
    /\ host \in DefaultBookmarkIds

Next ==
    \/ \E inEdit \in BOOLEAN : Open(inEdit)
    \/ switchToEdit
    \/ showAppInspectorForApp
    \/ \E order \in ResolutionOrders : RequestsResolved(order)
    \/ \E c \in CategorySet : RequestRejected(c)
    \/ ExtensionsResolved
    \/ ExtensionsRejected
    \/ \E a \in AssetIds : AssetClicked(a)
    \/ \E j \in 1..Len(assets) : ItemClicked(j)
    \/ \E index \in 0..1 : SubItemClicked(index)
    \/ \E id \in NavIds : NavToItem(id)
    \/ \E q \in Queries : SetQuery(q)
    \/ Done
    \/ Escape
    \/ closeAppInspectorForApp
    \/ ModalClosed

Spec == Init /\ [][Next]_vars

(***************************************************************************)
(* Properties of the controller, the modal and its load chain              *)
(***************************************************************************)
\* $scope.isActive (lines 1462-1464)
isActive == fsm = "MODAL"

\* C2: isActive() is true exactly while the modal is being opened (the
\* await of showAppInspectorForApp) or its dialog is open or closing, that
\* is from an accepted open until modal.closed resolves; whenever the
\* machine is IDLE no dialog is left, modal is not set (null once a dialog
\* was closed, by Done, escape or $destroy), and while the controller
\* lives an open in edit mode is accepted.
C2_ActiveWhileModal ==
    /\ isActive <=> (pc = "await" \/ dialog \in {"open", "closing"})
    /\ ~isActive =>
          /\ fsm = "IDLE"
          /\ modal \in {"undefined", "null"}
          /\ prevSession # "none" => modal = "null"
          /\ ~destroyed => ENABLED (Open(TRUE) /\ fsm' = "MODAL")

\* C2: the modal is open again after an earlier dialog was closed by its
\* user and the machine went back to IDLE.
C2_Witness ==
    /\ prevSession # "none"
    /\ isActive
    /\ dialog = "open"
    /\ modal = "dialog"
    /\ ~destroyed

\* The fields of a scope that the modal's controller has just set up.
IsFreshScope(sc) ==
    /\ sc.loading = TRUE
    /\ sc.activeAsset = "app"
    /\ sc.allItems = EmptyOrdered
    /\ sc.filteredItems = EmptyOrdered
    /\ sc.selected = <<>>
    /\ sc.query = <<>>

\* C3: every step that shows the modal leaves a scope with loading = true,
\* activeAsset = "app", empty allItems, filteredItems, selected and query,
\* whatever the scope of the dialog shown before holds, and all ten
\* categories requested anew.
C3_FreshSession ==
    [][(pc = "await" /\ pc' = "idle") =>
          /\ IsFreshScope(scope')
          /\ pending' = CategorySet
          /\ args' = <<>>
          /\ loadState' = "requests"]_vars

\* C3: a modal has just been opened after a session that was closed with
\* its items loaded.
C3_Witness ==
    /\ prevSession = "done"
    /\ dialog = "open"
    /\ loadState = "requests"
    /\ IsFreshScope(scope)
    /\ pending = CategorySet

\* C4 as stated: loading is false only after all ten requests and the
\* extension list have resolved, and the allItems that results is that of
\* the requests resolving in the order they are written, for every order
\* in which they resolve.
C4_OrderIndependent ==
    /\ scope.loading = FALSE =>
          /\ loadState = "done"
          /\ pending = {}
          /\ Len(args) = Len(Categories)
    /\ loadState = "done" => scope.allItems.at = AllItemsOf(Categories, host).at

\* C5: when a request, the extension list or the processing has failed,
\* the error dialog was shown once, loading is still true, and selected
\* and filteredItems are empty, whatever the user does afterwards; without
\* a failure no error dialog is shown.
C5_FailedStaysLoading ==
    /\ loadState = "failed" =>
          /\ errorDialogs = 1
          /\ scope.loading = TRUE
          /\ scope.selected = <<>>
          /\ scope.filteredItems = EmptyOrdered
    /\ loadState # "failed" => errorDialogs = 0

\* C5: the processing of the results failed with part of allItems set, and
\* the user has since clicked an asset and typed a query.
C5_Witness ==
    /\ loadState = "failed"
    /\ dialog = "open"
    /\ scope.allItems.keys # <<>>
    /\ scope.activeAsset = "bookmark"
    /\ scope.query # <<>>

\* The bookmark item is marked as the default bookmark.
IsMarkedDefault(a) ==
    /\ Has(a, "icon") /\ a.icon = "bookmark"
    /\ Cardinality({i \in 1..Len(a.details) :
                       Has(a.details[i], "id") /\ a.details[i].id = "default"}) = 1

\* C6 as stated: when the AppPropsList layout has a defaultBookmarkId and
\* the results are processed, loading completes and, of the bookmark
\* items, the one with that id is marked as the default bookmark and no
\* other.
C6_DefaultBookmarkMarked ==
    (Truthy(host) /\ scope.allItems.keys # <<>>) =>
        /\ loadState = "done"
        /\ scope.loading = FALSE
        /\ \A i \in 1..Len(scope.allItems.at["bookmark"]) :
              LET a == scope.allItems.at["bookmark"][i]
              IN IF a.id = host.v
                 THEN IsMarkedDefault(a)
                 ELSE /\ ~Has(a, "icon")
                      /\ \A d \in 1..Len(a.details) : ~Has(a.details[d], "id")

\* The text contains the query, whatever the case of their letters.
ContainsIgnoringCase(text, query) ==
    \E from \in 1..(Len(text) - Len(query) + 1) :
        \A k \in 1..Len(query) :
            \/ text[from + k - 1] = query[k]
            \/ LowerChar(text[from + k - 1]) = LowerChar(query[k])

\* The items of the list whose id, label or searchTerms contains the query.
Matching(list, query) ==
    SelectSeq(list, LAMBDA a :
        \/ query = <<>>
        \/ \E attr \in {"id", "label", "searchTerms"} :
              Has(a, attr) /\ ContainsIgnoringCase(a[attr], query))

\* filteredItems has the category keys of allItems, and every category of
\* it holds, in their order, the items of allItems whose id, label or
\* searchTerms contains the query case-insensitively.
IsFiltered(sc) ==
    /\ DOMAIN sc.filteredItems.at = DOMAIN sc.allItems.at
    /\ \A c \in DOMAIN sc.allItems.at :
          /\ sc.filteredItems.at[c] = Matching(sc.allItems.at[c], sc.query)
          /\ sc.query = <<>> => sc.filteredItems.at[c] = sc.allItems.at[c]

Carries(a, attr) == Has(a, attr) /\ (attr = "children" => Truthy(a.children))

\* The item has a code object, with an entry for each of layout,
\* properties and children that it carries.
HasCodeOf(a) ==
    /\ Has(a, "code")
    /\ \A attr \in {"layout", "properties", "children"} :
          Carries(a, attr) => Has(a.code, attr)

\* The code entries that the request's result came with are the item's.
KeepsCode(raw, a) ==
    Has(raw, "code") =>
        \A attr \in DOMAIN raw.code : Has(a.code, attr) /\ a.code[attr] = raw.code[attr]

\* C10: after loading, every item without sub-items and every sub-item of
\* a grouped item has a code object, with a layout, properties or children
\* entry whenever it carries that attribute, and the code entries an item
\* came with are kept by prepareItem.
C10_CodeAvailable ==
    loadState = "done" =>
        /\ \A c \in DOMAIN scope.allItems.at :
              \A j \in 1..Len(scope.allItems.at[c]) :
                 LET a == scope.allItems.at[c][j]
                 IN IF HasItems(a)
                    THEN \A k \in 1..Len(a.items.v) : HasCodeOf(a.items.v[k])
                    ELSE HasCodeOf(a)
        /\ \A n \in 1..Len(Categories) :
              LET raw == RequestResult(Categories[n], host)
              IN \A j \in 1..Len(raw) :
                    ~HasItems(raw[j]) => KeepsCode(raw[j], scope.allItems.at[Categories[n]][j])

\* C10: the items are loaded: the data model, which came with its layout
\* code, has kept it, the master object has the code of its children, and
\* the bar charts are grouped in one item whose sub-items have code.
C10_Witness ==
    /\ loadState = "done"
    /\ LET dm == scope.allItems.at["field"][1]
           mo == scope.allItems.at["masterObject"][1]
           ch == scope.allItems.at["chart"][1]
       IN /\ Has(dm, "layout") /\ dm.code.layout.label = "Datamodel"
          /\ Has(mo.code, "children") /\ Has(mo.code, "properties")
          /\ HasItems(ch) /\ Len(ch.items.v) = 2
          /\ ~Has(ch, "code")

\* A string: a text of the model.
IsText(t) == DOMAIN t = 1..Cardinality(DOMAIN t) /\ \A i \in DOMAIN t : t[i] \in STRING

\* A row of details: a name, a non-empty label, a boolean isCode and a
\* value that is a non-empty array.
IsRow(r) ==
    /\ DOMAIN r = {"name", "label", "value", "isCode"}
    /\ IsText(r.name)
    /\ IsText(r.label) /\ r.label # <<>>
    /\ r.isCode \in BOOLEAN
    /\ DOMAIN r.value = 1..Cardinality(DOMAIN r.value) /\ r.value # <<>>

\* The item has the shape of a display item.
IsDisplayItem(a) ==
    /\ Has(a, "searchTerms") /\ IsText(a.searchTerms)
    /\ Has(a, "details")
    /\ DOMAIN a.details = 1..Cardinality(DOMAIN a.details)
    /\ \A i \in DOMAIN a.details : IsRow(a.details[i])

\* The value of a detail that is not listed: null, undefined, an empty
\* string or an empty array.
IsBlank(v) == v.t \in {"null", "undefined"} \/ (v.t \in {"string", "array"} /\ v.v = <<>>)

\* The details of the request's item that are blank have no row.
BlankUnlisted(raw, a) ==
    Has(raw, "details") =>
        \A d \in 1..Len(raw.details) :
            IsBlank(DetailValue(raw.details[d].entry)) =>
                \A i \in 1..Len(a.details) : a.details[i].name # raw.details[d].name

\* C11: after loading, every item of every category of allItems, and
\* every sub-item of a grouped item, has searchTerms that is a string and
\* details that is an array of rows with a name, a non-empty label, a
\* boolean isCode and a non-empty array as value; a detail of a request's
\* item whose value is null, undefined, an empty string or an empty array
\* has no row.
C11_DisplayShape ==
    loadState = "done" =>
        /\ \A c \in DOMAIN scope.allItems.at :
              \A j \in 1..Len(scope.allItems.at[c]) :
                 LET a == scope.allItems.at[c][j]
                 IN /\ IsDisplayItem(a)
                    /\ HasItems(a) => \A k \in 1..Len(a.items.v) : IsDisplayItem(a.items.v[k])
        /\ \A n \in 1..Len(Categories) :
              LET raw == RequestResult(Categories[n], host)
              IN \A j \in 1..Len(raw) :
                    BlankUnlisted(raw[j], scope.allItems.at[Categories[n]][j])

\* C11: the items are loaded; the options of the app, whose owner is
\* null, have the theme row only, the data model, whose keys are an empty
\* array, the tables row only, and the bookmark with an empty description
\* and undefined sheet and state has no row.
C11_Witness ==
    /\ loadState = "done"
    /\ LET opts == scope.allItems.at["app"][3]
           dm == scope.allItems.at["field"][1]
           bm == scope.allItems.at["bookmark"][2]
       IN /\ Len(opts.details) = 1 /\ opts.details[1].name = <<"t", "h", "e", "m", "e">>
          /\ Len(dm.details) = 1 /\ dm.details[1].name = <<"t", "a", "b", "l", "e", "s">>
          /\ bm.id = <<"b", "m", "2">> /\ bm.details = <<>>
          /\ scope.allItems.at["app"][1].details[1].label = <<"I", "d">>

(***************************************************************************)
(* The info requests on their own                                          *)
(*                                                                         *)
(* One request is looked at: infoIn is what the host answers, infoOut the  *)
(* list the request resolves with.                                         *)
(***************************************************************************)

MaxVariables == 2

\* The variables of the app, as the engine lists them: reserved ones
\* among them, with or without a definition.
HostVariableChoices ==
    [name : {<<"v", "A">>, <<"v", "B">>}, reserved : BOOLEAN, definition : {<<>>, <<"=", "1">>}]

HostVariableLists ==
    UNION {[1..n -> HostVariableChoices] : n \in 0..MaxVariables}

\* appInfo.variables(app.id, { validate: true, qIsReserved: false }): an
\* item for every variable that is not reserved, in the engine's order.
appInfoVariables(hostVars) ==
    LET kept == SelectSeq(hostVars, LAMBDA v : ~v.reserved)
    IN [i \in 1..Len(kept) |->
           [id |-> kept[i].name, label |-> kept[i].name,
            details |-> IF kept[i].definition = <<>> THEN <<>>
                        ELSE << [name |-> <<"d", "e", "f", "i", "n", "i", "t", "i", "o", "n">>,
                                 entry |-> Entry(<<"D", "e", "f", "i", "n", "i", "t", "i", "o", "n">>, Str(kept[i].definition))] >>]]

\* getVariableInfo (lines 467-488)
GetVariableInfo ==
    /\ infoIn.kind = "variable"
    /\ ~infoOut.done
    /\ infoOut' = [done |-> TRUE, list |-> getVariableInfoOf(appInfoVariables(infoIn.variables))]
    /\ UNCHANGED <<infoIn, sheetsIn, uniqOut, oaVars, oaHist, modalVars>>

MaxReports == 2

\* app.model.enigmaModel.checkScriptSyntax(): reports on the two sections
\* and on a section appInfo.script did not list.
ScriptReports ==
    [qTabIx : 0..2, qLineInTab : 1..2, qTextPos : {6}, qErrLen : {4}]

ValidationLists == UNION {[1..n -> ScriptReports] : n \in 0..MaxReports}

\* getScriptInfo (lines 859-898)
GetScriptInfo ==
    /\ infoIn.kind = "script"
    /\ ~infoOut.done
    /\ infoOut' = [done |-> TRUE,
                   list |-> getScriptInfoOf(ScriptSections, infoIn.validation, ScriptText)]
    /\ UNCHANGED <<infoIn, sheetsIn, uniqOut, oaVars, oaHist, modalVars>>

\* The installation, the outcome of the QRS request and the owner in the
\* app's options.
AppEnvironments ==
    [isDesktop : BOOLEAN, qrs : {"rejected", "empty", "data"},
     owner : {Str(<<"a", "n", "n">>), [t |-> "object", userDirectory |-> <<"D">>, userId |-> <<"a", "n", "n">>],
              Undefined},
     defaultBookmarkId : DefaultBookmarkIds]

\* getAppInfo (lines 709-851)
GetAppInfo ==
    /\ infoIn.kind = "app"
    /\ ~infoOut.done
    /\ infoOut' = [done |-> TRUE, list |-> getAppInfoOf(infoIn.env, QrsApp(infoIn.env))]
    /\ UNCHANGED <<infoIn, sheetsIn, uniqOut, oaVars, oaHist, modalVars>>

InfoInputs ==
    {[kind |-> "variable", variables |-> v] : v \in HostVariableLists}
    \cup {[kind |-> "script", validation |-> v] : v \in ValidationLists}
    \cup {[kind |-> "app", env |-> e] : e \in AppEnvironments}

InitInfo ==
    /\ InitApps
    /\ sheetsIn = <<>>
    /\ uniqOut = EmptyObject
    /\ infoIn \in InfoInputs
    /\ infoOut = [done |-> FALSE]
    /\ ModalIdle
    /\ canSwitchToEdit = TRUE
    /\ host = Undefined

NextInfo ==
    \/ GetVariableInfo
    \/ GetScriptInfo
    \/ GetAppInfo

SpecInfo == InitInfo /\ [][NextInfo]_vars

\* C12: the list of variables starts with the "System variables" item, whose
\* properties are the locale info, and goes on with the variables of the
\* app that are not reserved, each once and in the host's order.
C12_SystemVariablesFirst ==
    (infoIn.kind = "variable" /\ infoOut.done) =>
        LET kept == SelectSeq(infoIn.variables, LAMBDA v : ~v.reserved)
            list == infoOut.list
        IN /\ Len(list) = 1 + Len(kept)
           /\ list[1].label = <<"S", "y", "s", "t", "e", "m", " ", "v", "a", "r", "i", "a", "b", "l", "e", "s">>
           /\ list[1].properties = SystemVariables.properties
           /\ \A i \in 1..Len(kept) : list[i + 1].id = kept[i].name

\* C12: a reserved variable came before one that is not, and the list was made.
C12_Witness ==
    /\ infoIn.kind = "variable" /\ infoOut.done
    /\ Len(infoOut.list) = 2
    /\ Len(infoIn.variables) = 2
    /\ infoIn.variables[1].reserved

\* The reports of the syntax check on the section with the given index.
ReportsOn(index) == Len(SelectSeq(infoIn.validation, LAMBDA a : a.qTabIx = index))

\* C13: getScriptInfo returns every section once and in the host's order; a
\* section has the icon "debug" and error entries exactly when the syntax
\* check reports an error on its index, and then as many entries as there
\* are such reports; the other sections get no icon and no errors.
C13_InvalidSectionsFlagged ==
    (infoIn.kind = "script" /\ infoOut.done) =>
        /\ Len(infoOut.list) = Len(ScriptSections)
        /\ \A i \in 1..Len(ScriptSections) :
              LET a == infoOut.list[i]
                  n == ReportsOn(ScriptSections[i].index)
              IN /\ a.id = ScriptSections[i].id
                 /\ (n > 0) <=> (Has(a, "icon") /\ Has(a, "errors"))
                 /\ (n > 0) => (a.icon = "debug" /\ Len(a.errors.v) = n)
                 /\ (n = 0) => (~Has(a, "icon") /\ ~Has(a, "errors"))

\* C13: two reports on the second section and none on the first.
C13_Witness ==
    /\ infoIn.kind = "script" /\ infoOut.done
    /\ ReportsOn(1) = 2
    /\ Len(infoOut.list[2].errors.v) = 2
    /\ ~Has(infoOut.list[1], "icon")

\* The list has an item labelled "QRS".
HasQrsItem(list) == \E i \in 1..Len(list) : list[i].label = <<"Q", "R", "S">>

\* C14: the list of the app has the "QRS" item exactly when the
\* installation is not a desktop and the QRS request resolved with data
\* that is not empty.
C14_QrsItemListed ==
    (infoIn.kind = "app" /\ infoOut.done) =>
        (HasQrsItem(infoOut.list) <=> (~infoIn.env.isDesktop /\ infoIn.env.qrs = "data"))

\* C14: on a desktop, or when the QRS request fails, the list is made and
\* has no "QRS" item.
C14_AbsentWithoutData ==
    (infoIn.kind = "app" /\ infoOut.done
     /\ (infoIn.env.isDesktop \/ infoIn.env.qrs = "rejected")) =>
        /\ ~HasQrsItem(infoOut.list)
        /\ Len(infoOut.list) = 5

(***************************************************************************)
(* The handlers of the modal                                               *)
(***************************************************************************)

\* The category is loaded: filteredItems has its list.
IsLoaded(sc, assetId) == Has(sc.filteredItems.at, assetId)

\* What C15 says of assetClicked(assetId) on the scope sc, but for the
\* sub-item.
AssetClickedAsSaid(sc, assetId) ==
    LET after == assetClicked(sc, assetId)
        list == sc.filteredItems.at[assetId]
    IN /\ after.activeAsset = assetId
       /\ (sc.activeAsset # assetId /\ ~IsLoaded(sc, assetId)) => after.activeItem = Null
       /\ (sc.activeAsset # assetId /\ IsLoaded(sc, assetId) /\ list # <<>>) =>
              after.activeItem = list[1]
       /\ (sc.activeAsset = assetId /\ IsLoaded(sc, assetId)
           /\ IndexIn(list, sc.activeItem) # {}) => after.activeItem = sc.activeItem

QueryChanged == dialog = "open" /\ dialog' = "open" /\ scope'.query # scope.query

\* The active item stays when it is in the list, else the first item of
\* the list, or none, becomes active.
ActiveItemFollows(list) ==
    IF IndexIn(list, scope.activeItem) # {}
    THEN scope'.activeItem = scope.activeItem
    ELSE scope'.activeItem = (IF list = <<>> THEN Undefined ELSE list[1])

\* The items of the active asset that match the new query.
NewFilteredList ==
    IF Has(scope.allItems.at, scope.activeAsset)
    THEN Matching(scope.allItems.at[scope.activeAsset], scope'.query)
    ELSE <<>>

LoadingFinishes == dialog = "open" /\ loadState = "extensions" /\ loadState' = "done"

\* C17: when loading finishes, the query typed and the asset clicked while
\* it was in progress are still the query and the active asset; every
\* category is filtered by that query; the list shown is the filtered list
\* of that asset and the active item, which there is when the list is not
\* empty, is an item of it.
C17_AppliedAfterLoading ==
    [][LoadingFinishes =>
          /\ scope'.query = scope.query
          /\ scope'.activeAsset = scope.activeAsset
          /\ IsFiltered(scope')
          /\ scope'.selected = scope'.filteredItems.at[scope.activeAsset]
          /\ scope'.selected = Matching(scope'.allItems.at[scope.activeAsset], scope.query)
          /\ IsItem(scope'.activeItem) => IndexIn(scope'.selected, scope'.activeItem) # {}
          /\ scope'.selected # <<>> => IsItem(scope'.activeItem)]_vars

\* C17: "am" was typed and the fields were clicked while the items were
\* being loaded; the end of the load makes the field Amount active.
C17_Witness ==
    /\ dialog = "open" /\ loadState = "extensions"
    /\ scope.query = <<"a", "m">>
    /\ scope.activeAsset = "field"
    /\ ~loadThen(scope, args, host).threw
    /\ loadThen(scope, args, host).sc.activeItem.id = <<"A", "m", "o", "u", "n", "t">>
    /\ Len(loadThen(scope, args, host).sc.selected) = 1

\* The categories of allItems, by their place among the keys, that have a
\* top-level item with the id.
CategoriesWith(sc, id) ==
    {n \in 1..Len(sc.allItems.keys) :
        \E j \in 1..Len(sc.allItems.at[sc.allItems.keys[n]]) :
            sc.allItems.at[sc.allItems.keys[n]][j].id = id}

\* The first item with the id in the list.
FirstWith(list, id) ==
    list[CHOOSE j \in 1..Len(list) :
            list[j].id = id /\ \A m \in 1..(j - 1) : list[m].id # id]

\* Some item has a child with the id.
IsChildId(sc, id) ==
    \E c \in DOMAIN sc.allItems.at : \E j \in 1..Len(sc.allItems.at[c]) :
        LET a == sc.allItems.at[c][j]
        IN /\ Has(a, "children") /\ Truthy(a.children)
           /\ \E k \in 1..Len(a.children.v) : a.children.v[k].id = id

\* C18: whenever the modal is shown, navToItem with the id of a top-level
\* item makes the first category that has such an item the active asset
\* and its first item with the id the active item; that category is
\* "errors" only when no other category has the item; with an id of no
\* item and no child the active asset, the list shown, the active item and
\* the active sub-item are left as they are.
C18_NavToTopLevel ==
    dialog = "open" =>
        \A id \in NavIds :
            LET after == navToItem(scope, id)
                cats == CategoriesWith(scope, id)
            IN IF cats # {}
               THEN LET n == CHOOSE n \in cats : \A m \in cats : n <= m
                        c == scope.allItems.keys[n]
                    IN /\ after.activeAsset = c
                       /\ after.activeItem = FirstWith(scope.allItems.at[c], id)
                       /\ c = "errors" => cats = {n}
               ELSE ~IsChildId(scope, id) =>
                       /\ after.activeAsset = scope.activeAsset
                       /\ after.selected = scope.selected
                       /\ after.activeItem = scope.activeItem
                       /\ after.activeSubItem = scope.activeSubItem

\* C18: the bookmarks are shown; the section sc1, which is listed under
\* the errors too, is found among the script sections, and "zz" nowhere.
C18_Witness ==
    /\ dialog = "open" /\ loadState = "done"
    /\ scope.activeAsset = "bookmark"
    /\ \E j \in 1..Len(scope.allItems.at["errors"]) : scope.allItems.at["errors"][j].id = <<"s", "c", "1">>
    /\ navToItem(scope, <<"s", "c", "1">>).activeAsset = "script"
    /\ navToItem(scope, <<"s", "c", "1">>).activeItem.id = <<"s", "c", "1">>
    /\ CategoriesWith(scope, <<"z", "z">>) = {}
    /\ navToItem(scope, <<"z", "z">>) = scope

\* C19: whenever the modal is shown, navToItem with an id that no
\* top-level item has and a child of an item has makes the category of an
\* item with such a child the active asset, that item the active item and
\* the place of the child the index of the active sub-item.
C19_NavToChild ==
    dialog = "open" =>
        \A id \in NavIds :
            (CategoriesWith(scope, id) = {} /\ IsChildId(scope, id)) =>
                \E c \in DOMAIN scope.allItems.at : \E j \in 1..Len(scope.allItems.at[c]) :
                    LET a == scope.allItems.at[c][j]
                        after == navToItem(scope, id)
                    IN /\ Has(a, "children") /\ Truthy(a.children)
                       /\ \E k \in 1..Len(a.children.v) :
                             /\ a.children.v[k].id = id
                             /\ after.activeAsset = c
                             /\ after.activeItem = a
                             /\ after.activeSubItemIx = k - 1

====
